---- MODULE Spec2Model ----
(***************************************************************************)
(* A model of the T.LY URL shortener client (tly_url_shortener):           *)
(* client.py (TlyClient, _as_iso, _add_indexed_params), endpoints.py       *)
(* (ENDPOINTS, SUPPORTED_METHODS), exceptions.py (TlyAPIError) and cli.py  *)
(* (main, _parse_data, _print_result).                                     *)
(*                                                                         *)
(* Python values are tagged records; Python str values are TLA+ strings,   *)
(* handled with Len, SubSeq and \o, so formatting, trimming and decoding   *)
(* are computed character by character.                                    *)
(***************************************************************************)
EXTENDS Integers, Sequences, FiniteSets, TLC

VARIABLES
    given,      \* the arguments the client was constructed with (api_token, base_url); NoCall before
    client,     \* the TlyClient instance: base_url, timeout, default_headers, session_closed; NoClient before construction
    pc,         \* position of the caller: "idle", "inflight" (blocked in session.request), "done", "exited"
    call,       \* the public call in progress: [via, name, kw] (via: "method", "request" or "cli")
    descriptor, \* the arguments the per-operation method handed to TlyClient.request
    calls,      \* the requests handed to the transport by the call in progress (session.request kwargs)
    response,   \* the transport's answer to the exchange: a response, a transport failure or NoResponse
    outcome,    \* how the call ended: [kind |-> "return", value] or [kind |-> "raise", exc]; NoOutcome before
    cli         \* the command-line run: argv, exit code, error stream, output stream; NoCli outside a CLI run

vars == <<given, client, pc, call, descriptor, calls, response, outcome, cli>>

----------------------------------------------------------------------------
(* Python values *)

None == [t |-> "None"]
PyStr(s) == [t |-> "str", v |-> s]
PyInt(n) == [t |-> "int", v |-> n]
PyBool(b) == [t |-> "bool", v |-> b]
PyBytes(bs) == [t |-> "bytes", v |-> bs]
PyList(items) == [t |-> "list", v |-> items]
\* a dict is its items in insertion order: a sequence of <<key, value>>, the keys Python str
PyDict(items) == [t |-> "dict", v |-> items]
PyDate(y, m, d) == [t |-> "date", year |-> y, month |-> m, day |-> d]
PyDateTime(y, m, d, hh, mm, ss, us) ==
    [t |-> "datetime", year |-> y, month |-> m, day |-> d,
     hour |-> hh, minute |-> mm, second |-> ss, microsecond |-> us]

\* isinstance(x, dict) and the like
IsDict(x) == x.t = "dict"
IsList(x) == x.t = "list"
IsStr(x) == x.t = "str"
IsBytes(x) == x.t = "bytes"

----------------------------------------------------------------------------
(* Python str operations *)

\* s[i-1:i]: the i-th character, "" outside the string
Char(s, i) == IF i >= 1 /\ i <= Len(s) THEN SubSeq(s, i, i) ELSE ""

Whitespace == {" ", "\t", "\n", "\r", "\f"}

startswith(s, p) == Len(s) >= Len(p) /\ SubSeq(s, 1, Len(p)) = p

\* sub in s
contains(s, sub) ==
    \E i \in 1..(Len(s) - Len(sub) + 1) : SubSeq(s, i, i + Len(sub) - 1) = sub

\* s.find(sub) + 1: the 1-based index of the first occurrence, 0 when there is none
find(s, sub) ==
    LET hits == {i \in 1..(Len(s) - Len(sub) + 1) : SubSeq(s, i, i + Len(sub) - 1) = sub}
    IN  IF hits = {} THEN 0 ELSE CHOOSE i \in hits : \A j \in hits : i <= j

RECURSIVE lstrip_chars(_, _)
lstrip_chars(s, chars) ==
    IF Len(s) > 0 /\ Char(s, 1) \in chars
    THEN lstrip_chars(SubSeq(s, 2, Len(s)), chars)
    ELSE s

RECURSIVE rstrip_chars(_, _)
rstrip_chars(s, chars) ==
    IF Len(s) > 0 /\ Char(s, Len(s)) \in chars
    THEN rstrip_chars(SubSeq(s, 1, Len(s) - 1), chars)
    ELSE s

\* s.strip()
strip(s) == rstrip_chars(lstrip_chars(s, Whitespace), Whitespace)

UpperLetters == "ABCDEFGHIJKLMNOPQRSTUVWXYZ"
LowerLetters == "abcdefghijklmnopqrstuvwxyz"

lower_char(c) ==
    LET i == find(UpperLetters, c)
    IN  IF i = 0 THEN c ELSE Char(LowerLetters, i)

upper_char(c) ==
    LET i == find(LowerLetters, c)
    IN  IF i = 0 THEN c ELSE Char(UpperLetters, i)

RECURSIVE lower(_)
lower(s) == IF s = "" THEN "" ELSE lower_char(Char(s, 1)) \o lower(SubSeq(s, 2, Len(s)))

RECURSIVE upper(_)
upper(s) == IF s = "" THEN "" ELSE upper_char(Char(s, 1)) \o upper(SubSeq(s, 2, Len(s)))

Digits == "0123456789"

RECURSIVE nat_str(_)
nat_str(n) ==
    IF n < 10 THEN Char(Digits, n + 1)
    ELSE nat_str(n \div 10) \o Char(Digits, (n % 10) + 1)

\* str(n) of an int
int_str(n) == IF n < 0 THEN "-" \o nat_str(0 - n) ELSE nat_str(n)

\* "%0<width>d" % n for n >= 0
RECURSIVE zero_pad(_, _)
zero_pad(s, width) == IF Len(s) >= width THEN s ELSE zero_pad("0" \o s, width)

----------------------------------------------------------------------------
(* bytes and text: response.content is a sequence of byte values,          *)
(* response.text its decoding                                              *)

\* the printable ASCII characters, code points 32..95 and 97..126 in order
\* (96, the backquote, cannot be written in a string of this module and is
\* decoded like an undecodable byte)
PrintableLow == " !\"#$%&'()*+,-./0123456789:;<=>?@ABCDEFGHIJKLMNOPQRSTUVWXYZ[\\]^_"
PrintableHigh == "abcdefghijklmnopqrstuvwxyz{|}~"

\* what an undecodable byte decodes to (errors="replace")
ReplacementChar == "?"

decode_byte(b) ==
    IF b >= 32 /\ b <= 95 THEN Char(PrintableLow, b - 31)
    ELSE IF b >= 97 /\ b <= 126 THEN Char(PrintableHigh, b - 96)
    ELSE IF b = 9 THEN "\t"
    ELSE IF b = 10 THEN "\n"
    ELSE IF b = 13 THEN "\r"
    ELSE ReplacementChar

RECURSIVE decode(_)
decode(bs) == IF bs = <<>> THEN "" ELSE decode_byte(Head(bs)) \o decode(Tail(bs))

encode_char(c) ==
    IF c = "\t" THEN 9
    ELSE IF c = "\n" THEN 10
    ELSE IF c = "\r" THEN 13
    ELSE IF find(PrintableLow, c) # 0 THEN 31 + find(PrintableLow, c)
    ELSE 96 + find(PrintableHigh, c)

\* str.encode() of ASCII text: the bytes a server sends for that text
RECURSIVE encode(_)
encode(s) == IF s = "" THEN <<>> ELSE <<encode_char(Char(s, 1))>> \o encode(SubSeq(s, 2, Len(s)))

----------------------------------------------------------------------------
(* dict operations, on the items sequence *)

dict_keys(items) == {items[i][1] : i \in DOMAIN items}

dict_has(items, key) == \E i \in DOMAIN items : items[i][1] = key

\* d.get(key): None when absent
dict_get(items, key) ==
    IF dict_has(items, key)
    THEN items[CHOOSE i \in DOMAIN items : items[i][1] = key][2]
    ELSE None

\* d[key] = value: replaces in place, else appends
dict_set(items, key, value) ==
    IF dict_has(items, key)
    THEN [i \in DOMAIN items |-> IF items[i][1] = key THEN <<key, value>> ELSE items[i]]
    ELSE Append(items, <<key, value>>)

\* d.update(other)
RECURSIVE dict_update(_, _)
dict_update(items, other) ==
    IF other = <<>> THEN items
    ELSE dict_update(dict_set(items, other[1][1], other[1][2]), Tail(other))

----------------------------------------------------------------------------
(* json.loads / response.json(): a decoder for JSON text made of objects,  *)
(* arrays, strings without escapes, integers, true, false and null.        *)
(* A result is [ok, v, i]: i is the index after the value.                 *)

JsonFail == [ok |-> FALSE, v |-> None, i |-> 0]

RECURSIVE skip_ws(_, _)
skip_ws(s, i) == IF Char(s, i) \in {" ", "\t", "\n", "\r"} THEN skip_ws(s, i + 1) ELSE i

IsDigit(c) == c # "" /\ find(Digits, c) # 0

\* the index after the run of digits starting at i
RECURSIVE digits_end(_, _)
digits_end(s, i) == IF IsDigit(Char(s, i)) THEN digits_end(s, i + 1) ELSE i

RECURSIVE digits_value(_)
digits_value(s) ==
    IF s = "" THEN 0
    ELSE 10 * digits_value(SubSeq(s, 1, Len(s) - 1)) + (find(Digits, Char(s, Len(s))) - 1)

parse_string(s, i) ==
    LET rest == SubSeq(s, i + 1, Len(s))
        j == find(rest, "\"")
    IN  IF Char(s, i) # "\"" \/ j = 0 \/ contains(SubSeq(rest, 1, j - 1), "\\")
        THEN JsonFail
        ELSE [ok |-> TRUE, v |-> PyStr(SubSeq(rest, 1, j - 1)), i |-> i + j + 1]

parse_number(s, i) ==
    LET neg == Char(s, i) = "-"
        b == IF neg THEN i + 1 ELSE i
        e == IF Char(s, b) = "0" THEN b + 1 ELSE digits_end(s, b)
    IN  IF e = b THEN JsonFail
        ELSE LET n == digits_value(SubSeq(s, b, e - 1))
             IN  [ok |-> TRUE, v |-> PyInt(IF neg THEN 0 - n ELSE n), i |-> e]

parse_literal(s, i) ==
    IF SubSeq(s, i, Len(s)) # "" /\ startswith(SubSeq(s, i, Len(s)), "true")
    THEN [ok |-> TRUE, v |-> PyBool(TRUE), i |-> i + 4]
    ELSE IF startswith(SubSeq(s, i, Len(s)), "false")
    THEN [ok |-> TRUE, v |-> PyBool(FALSE), i |-> i + 5]
    ELSE IF startswith(SubSeq(s, i, Len(s)), "null")
    THEN [ok |-> TRUE, v |-> None, i |-> i + 4]
    ELSE JsonFail

RECURSIVE parse_value(_, _)
RECURSIVE parse_members(_, _, _)
RECURSIVE parse_elements(_, _, _)

\* after "{" or ",": a "key": value pair, then "," or "}"
parse_members(s, i, items) ==
    LET k == parse_string(s, skip_ws(s, i))
    IN  IF ~k.ok THEN JsonFail
        ELSE LET c == skip_ws(s, k.i)
             IN  IF Char(s, c) # ":" THEN JsonFail
                 ELSE LET val == parse_value(s, c + 1)
                      IN  IF ~val.ok THEN JsonFail
                          ELSE LET e == skip_ws(s, val.i)
                                   more == dict_set(items, k.v.v, val.v)
                               IN  IF Char(s, e) = "," THEN parse_members(s, e + 1, more)
                                   ELSE IF Char(s, e) = "}"
                                   THEN [ok |-> TRUE, v |-> PyDict(more), i |-> e + 1]
                                   ELSE JsonFail

\* after "[" or ",": a value, then "," or "]"
parse_elements(s, i, items) ==
    LET val == parse_value(s, i)
    IN  IF ~val.ok THEN JsonFail
        ELSE LET e == skip_ws(s, val.i)
                 more == Append(items, val.v)
             IN  IF Char(s, e) = "," THEN parse_elements(s, e + 1, more)
                 ELSE IF Char(s, e) = "]"
                 THEN [ok |-> TRUE, v |-> PyList(more), i |-> e + 1]
                 ELSE JsonFail

parse_value(s, i) ==
    LET j == skip_ws(s, i)
        c == Char(s, j)
    IN  IF c = "{"
        THEN IF Char(s, skip_ws(s, j + 1)) = "}"
             THEN [ok |-> TRUE, v |-> PyDict(<<>>), i |-> skip_ws(s, j + 1) + 1]
             ELSE parse_members(s, j + 1, <<>>)
        ELSE IF c = "["
        THEN IF Char(s, skip_ws(s, j + 1)) = "]"
             THEN [ok |-> TRUE, v |-> PyList(<<>>), i |-> skip_ws(s, j + 1) + 1]
             ELSE parse_elements(s, j + 1, <<>>)
        ELSE IF c = "\"" THEN parse_string(s, j)
        ELSE IF c = "-" \/ IsDigit(c) THEN parse_number(s, j)
        ELSE parse_literal(s, j)

\* json.loads(s): [ok |-> TRUE, v |-> value], or ok = FALSE where Python raises
\* json.JSONDecodeError (a ValueError)
json_loads(s) ==
    LET r == parse_value(s, 1)
    IN  IF r.ok /\ skip_ws(s, r.i) = Len(s) + 1
        THEN [ok |-> TRUE, v |-> r.v]
        ELSE [ok |-> FALSE, v |-> None]

----------------------------------------------------------------------------
(* str() and repr() of Python values *)

RECURSIVE join(_, _)
\* sep.join(parts)
join(parts, sep) ==
    IF parts = <<>> THEN ""
    ELSE IF Len(parts) = 1 THEN parts[1]
    ELSE parts[1] \o sep \o join(Tail(parts), sep)

RECURSIVE split(_, _)
\* s.split(sep), sep one character
split(s, sep) ==
    LET i == find(s, sep)
    IN  IF i = 0 THEN <<s>>
        ELSE <<SubSeq(s, 1, i - 1)>> \o split(SubSeq(s, i + 1, Len(s)), sep)

str_repr(s) ==
    IF contains(s, "'") /\ ~contains(s, "\"") THEN "\"" \o s \o "\"" ELSE "'" \o s \o "'"

RECURSIVE py_repr(_)
py_repr(x) ==
    IF x.t = "str" THEN str_repr(x.v)
    ELSE IF x.t = "int" THEN int_str(x.v)
    ELSE IF x.t = "bool" THEN (IF x.v THEN "True" ELSE "False")
    ELSE IF x.t = "None" THEN "None"
    ELSE IF x.t = "list"
    THEN "[" \o join([i \in DOMAIN x.v |-> py_repr(x.v[i])], ", ") \o "]"
    ELSE IF x.t = "dict"
    THEN "{" \o join([i \in DOMAIN x.v |-> str_repr(x.v[i][1]) \o ": " \o py_repr(x.v[i][2])], ", ") \o "}"
    ELSE "<object>"

\* str(x)
py_str(x) == IF x.t = "str" THEN x.v ELSE py_repr(x)

\* bool(x): the truth value of a Python value
truthy(x) ==
    IF x.t = "None" THEN FALSE
    ELSE IF x.t = "bool" THEN x.v
    ELSE IF x.t = "int" THEN x.v # 0
    ELSE IF x.t = "str" THEN x.v # ""
    ELSE IF x.t \in {"list", "dict", "bytes"} THEN x.v # <<>>
    ELSE TRUE

----------------------------------------------------------------------------
(* datetime.date.isoformat and datetime.datetime.isoformat (naive values) *)

date_isoformat(d) ==
    zero_pad(int_str(d.year), 4) \o "-" \o zero_pad(int_str(d.month), 2)
        \o "-" \o zero_pad(int_str(d.day), 2)

datetime_isoformat(d) ==
    date_isoformat(d) \o "T" \o zero_pad(int_str(d.hour), 2) \o ":"
        \o zero_pad(int_str(d.minute), 2) \o ":" \o zero_pad(int_str(d.second), 2)
        \o (IF d.microsecond # 0 THEN "." \o zero_pad(int_str(d.microsecond), 6) ELSE "")

isoformat(d) == IF d.t = "datetime" THEN datetime_isoformat(d) ELSE date_isoformat(d)

----------------------------------------------------------------------------
(* client.py: module-level helpers *)

\* _as_iso formatting a datetime as its date alone
_as_iso_date_only(value) ==
    IF value = None THEN None
    ELSE IF value.t \in {"date", "datetime"} THEN PyStr(date_isoformat(value))
    ELSE value

\* _as_iso(value): a Python value, None for None
_as_iso(value) ==
    IF value = None THEN None
    ELSE IF value.t \in {"date", "datetime"} THEN PyStr(isoformat(value))
    ELSE value

\* _add_indexed_params numbering the keys from 1
_add_indexed_params_from_one(target, key, values) ==
    IF ~truthy(values) THEN target
    ELSE target \o [idx \in DOMAIN values.v |->
                        <<key \o "[" \o int_str(idx) \o "]", PyStr(py_str(values.v[idx]))>>]

\* _add_indexed_params(target, key, values): the list target after the call
_add_indexed_params(target, key, values) ==
    IF ~truthy(values) THEN target
    ELSE target \o [idx \in DOMAIN values.v |->
                        <<key \o "[" \o int_str(idx - 1) \o "]", PyStr(py_str(values.v[idx]))>>]

----------------------------------------------------------------------------
(* exceptions.py, and the exception classes of Python and the transport    *)
(* that the code raises or catches                                         *)

\* each class with its base classes, itself included
Mro(type) ==
    IF type = "TlyAPIError" THEN {"TlyAPIError", "TlyError", "Exception", "BaseException"}
    ELSE IF type = "JSONDecodeError" THEN {"JSONDecodeError", "ValueError", "Exception", "BaseException"}
    ELSE IF type = "ValueError" THEN {"ValueError", "Exception", "BaseException"}
    ELSE IF type = "TypeError" THEN {"TypeError", "Exception", "BaseException"}
    ELSE IF type \in {"ConnectionError", "Timeout"}
    THEN {type, "RequestException", "OSError", "Exception", "BaseException"}
    ELSE IF type = "SystemExit" THEN {"SystemExit", "BaseException"}
    ELSE {type, "Exception", "BaseException"}

\* isinstance(exc, cls)
IsInstance(exc, cls) == cls \in Mro(exc.type)

\* TlyAPIError(status_code, message, response_body)
TlyAPIError(status_code, message, response_body) ==
    [type |-> "TlyAPIError", status_code |-> status_code, message |-> message,
     response_body |-> response_body,
     str |-> "T.LY API error (" \o int_str(status_code) \o "): " \o message]

\* any other exception, with str(exc)
Exc(type, text) == [type |-> type, str |-> text]

Return(value) == [kind |-> "return", value |-> value]
Raise(exc) == [kind |-> "raise", exc |-> exc]

----------------------------------------------------------------------------
(* urllib.parse.urljoin, for a base with a scheme and a network location   *)
(* and a url without query or fragment                                     *)

SchemeChars == LowerLetters \o UpperLetters \o Digits \o "+-."

\* the length of the scheme of url, 0 when it has none (urlsplit)
scheme_len(url) ==
    LET i == find(url, ":")
    IN  IF i > 1
           /\ find(LowerLetters \o UpperLetters, Char(url, 1)) # 0
           /\ \A k \in 1..(i - 1) : find(SchemeChars, Char(url, k)) # 0
        THEN i - 1 ELSE 0

\* the network location and the path of what follows "//"
split_netloc(scheme, after, j) ==
    [scheme |-> scheme,
     netloc |-> IF j = 0 THEN after ELSE SubSeq(after, 1, j - 1),
     path |-> IF j = 0 THEN "" ELSE SubSeq(after, j, Len(after))]

\* what follows the scheme of url
split_rest(scheme, rest) ==
    IF startswith(rest, "//")
    THEN split_netloc(scheme, SubSeq(rest, 3, Len(rest)), find(SubSeq(rest, 3, Len(rest)), "/"))
    ELSE [scheme |-> scheme, netloc |-> "", path |-> rest]

split_scheme(url, n) ==
    split_rest(lower(SubSeq(url, 1, n)), IF n = 0 THEN url ELSE SubSeq(url, n + 2, Len(url)))

\* urlsplit(url): [scheme, netloc, path]
urlsplit(url) == split_scheme(url, scheme_len(url))

urlunsplit(scheme, netloc, path) ==
    (IF scheme = "" THEN "" ELSE scheme \o ":")
        \o (IF netloc = "" THEN "" ELSE "//" \o netloc) \o path

\* segments[1:-1] = filter(None, segments[1:-1])
drop_empty_inner(segments) ==
    LET n == Len(segments)
        inner == SelectSeq(SubSeq(segments, 2, n - 1), LAMBDA x : x # "")
    IN  IF n <= 2 THEN segments ELSE <<segments[1]>> \o inner \o <<segments[n]>>

RECURSIVE resolve(_, _)
\* the loop over segments removing "." and ".."
resolve(segments, resolved) ==
    IF segments = <<>> THEN resolved
    ELSE LET seg == Head(segments)
         IN  IF seg = ".."
             THEN resolve(Tail(segments),
                          IF resolved = <<>> THEN resolved
                          ELSE SubSeq(resolved, 1, Len(resolved) - 1))
             ELSE IF seg = "." THEN resolve(Tail(segments), resolved)
             ELSE resolve(Tail(segments), Append(resolved, seg))

\* base_parts = bpath.split("/"), without its last segment unless that is empty
base_parts(parts) ==
    IF parts[Len(parts)] # "" THEN SubSeq(parts, 1, Len(parts) - 1) ELSE parts

\* the segments of the joined path before "." and ".." are resolved
join_segments(bpath, upath) ==
    IF startswith(upath, "/") THEN split(upath, "/")
    ELSE drop_empty_inner(base_parts(split(bpath, "/")) \o split(upath, "/"))

\* the resolved path: a trailing "." or ".." leaves a trailing "/"
resolved_path(segments) ==
    join(IF segments[Len(segments)] \in {".", ".."}
         THEN Append(resolve(segments, <<>>), "") ELSE resolve(segments, <<>>), "/")

or_root(path) == IF path = "" THEN "/" ELSE path

urljoin_split(base, url, b, u) ==
    IF url = "" THEN base
    ELSE IF u.scheme # "" /\ u.scheme # b.scheme THEN url
    ELSE IF u.netloc # "" THEN urlunsplit(b.scheme, u.netloc, u.path)
    ELSE IF u.path = "" THEN urlunsplit(b.scheme, b.netloc, b.path)
    ELSE urlunsplit(b.scheme, b.netloc, or_root(resolved_path(join_segments(b.path, u.path))))

urljoin(base, url) == urljoin_split(base, url, urlsplit(base), urlsplit(url))

----------------------------------------------------------------------------
(* client.py: class TlyClient *)

NoClient == [t |-> "NoClient"]

\* TlyClient.__init__(api_token, base_url=..., timeout=..., user_agent=...): the
\* instance, or the ValueError it raises. The session is a fresh requests.Session.
TlyClient_init(api_token, base_url, timeout, user_agent) ==
    IF ~truthy(api_token)
    THEN Raise(Exc("ValueError", "api_token is required"))
    ELSE Return([t |-> "TlyClient",
                 base_url |-> rstrip_chars(base_url, {"/"}),
                 timeout |-> timeout,
                 session |-> [closed |-> FALSE],
                 default_headers |-> << <<"Authorization", PyStr("Bearer " \o py_str(api_token))>>,
                                        <<"Accept", PyStr("application/json")>>,
                                        <<"Content-Type", PyStr("application/json")>>,
                                        <<"User-Agent", PyStr(user_agent)>> >>])

\* TlyClient.close(): the instance after self.session.close()
close(self) == [self EXCEPT !.session.closed = TRUE]

\* __exit__ leaving the session as it is
TlyClient_exit_leaves_open(self) == self

\* TlyClient.__exit__
TlyClient_exit(self) == close(self)

\* _build_headers merging into self.default_headers itself (merged is no copy)
_build_headers_in_place(self, headers) ==
    LET merged == IF truthy(headers) THEN dict_update(self.default_headers, headers.v)
                  ELSE self.default_headers
    IN  [merged |-> merged, default_headers |-> merged]

\* TlyClient._build_headers(headers): the merged mapping, and self.default_headers
\* after the call (merged starts as a copy, dict(self.default_headers), so the
\* update leaves the instance's mapping as it was)
_build_headers(self, headers) ==
    [merged |-> IF truthy(headers) THEN dict_update(self.default_headers, headers.v)
                ELSE self.default_headers,
     default_headers |-> self.default_headers]

\* TlyClient._normalize_path(path)
_normalize_path(path) == IF startswith(path, "/") THEN path ELSE "/" \o path

\* response.text: the decoded body
ResponseText(resp) == decode(resp.content)

\* response.json(): json.loads of the body; ok = FALSE where it raises ValueError
ResponseJson(resp) == json_loads(ResponseText(resp))

\* response.headers.get("Content-Type", "")
ResponseContentType(resp) ==
    IF dict_has(resp.headers, "Content-Type") THEN dict_get(resp.headers, "Content-Type").v ELSE ""

\* the message taken from the payload with `error` looked at before `message`
payload_message_error_first(payload) ==
    IF IsDict(payload) /\ IsStr(dict_get(payload.v, "error"))
    THEN dict_get(payload.v, "error").v
    ELSE IF IsDict(payload) /\ IsStr(dict_get(payload.v, "message"))
    THEN dict_get(payload.v, "message").v
    ELSE IF IsDict(payload) /\ (IsDict(dict_get(payload.v, "errors")) \/ IsList(dict_get(payload.v, "errors")))
    THEN py_str(dict_get(payload.v, "errors"))
    ELSE py_str(payload)

\* the message _extract_error_message takes from the decoded payload
payload_message(payload) ==
    IF IsDict(payload) /\ IsStr(dict_get(payload.v, "message"))
    THEN dict_get(payload.v, "message").v
    ELSE IF IsDict(payload) /\ IsStr(dict_get(payload.v, "error"))
    THEN dict_get(payload.v, "error").v
    ELSE IF IsDict(payload) /\ (IsDict(dict_get(payload.v, "errors")) \/ IsList(dict_get(payload.v, "errors")))
    THEN py_str(dict_get(payload.v, "errors"))
    ELSE py_str(payload)

\* response.text or "Request failed"
text_or_failed(text) == IF text # "" THEN text ELSE "Request failed"

message_of(decoded, text) ==
    IF ~decoded.ok THEN text_or_failed(text) ELSE payload_message(decoded.v)

\* TlyClient._extract_error_message(response)
_extract_error_message(resp) == message_of(ResponseJson(resp), ResponseText(resp))

\* _parse_response without the empty-body case
_parse_response_no_empty_case(resp, expect_binary) ==
    IF expect_binary THEN Return(PyBytes(resp.content))
    ELSE LET text == strip(ResponseText(resp))
             content_type == lower(ResponseContentType(resp))
         IN  IF contains(content_type, "application/json")
                \/ startswith(text, "{") \/ startswith(text, "[")
             THEN (IF ResponseJson(resp).ok
                   THEN Return(ResponseJson(resp).v)
                   ELSE Raise(Exc("JSONDecodeError", "Expecting value")))
             ELSE Return(PyStr(text))

\* _parse_response returning the bytes of the trimmed text when binary is expected
_parse_response_trimmed_bytes(resp, expect_binary) ==
    LET text == strip(ResponseText(resp))
        content_type == lower(ResponseContentType(resp))
    IN  IF expect_binary THEN Return(PyBytes(encode(text)))
        ELSE IF text = "" THEN Return(PyDict(<<>>))
        ELSE IF contains(content_type, "application/json")
                \/ startswith(text, "{") \/ startswith(text, "[")
        THEN (IF ResponseJson(resp).ok
              THEN Return(ResponseJson(resp).v)
              ELSE Raise(Exc("JSONDecodeError", "Expecting value")))
        ELSE Return(PyStr(text))

\* _parse_response decoding JSON only when the Content-Type announces it
_parse_response_by_header_only(resp, expect_binary) ==
    IF expect_binary THEN Return(PyBytes(resp.content))
    ELSE LET text == strip(ResponseText(resp))
             content_type == lower(ResponseContentType(resp))
         IN  IF text = "" THEN Return(PyDict(<<>>))
             ELSE IF contains(content_type, "application/json")
             THEN (IF ResponseJson(resp).ok
                   THEN Return(ResponseJson(resp).v)
                   ELSE Raise(Exc("JSONDecodeError", "Expecting value")))
             ELSE Return(PyStr(text))

\* TlyClient._parse_response(response, expect_binary): how the call ends
_parse_response(resp, expect_binary) ==
    IF expect_binary THEN Return(PyBytes(resp.content))
    ELSE LET text == strip(ResponseText(resp))
             content_type == lower(ResponseContentType(resp))
         IN  IF text = "" THEN Return(PyDict(<<>>))
             ELSE IF contains(content_type, "application/json")
                     \/ startswith(text, "{") \/ startswith(text, "[")
             THEN (IF ResponseJson(resp).ok
                   THEN Return(ResponseJson(resp).v)
                   ELSE Raise(Exc("JSONDecodeError", "Expecting value")))
             ELSE Return(PyStr(text))

\* the request descriptor: the arguments of TlyClient.request
Descriptor(method, path, params, json_body, headers, expect_binary) ==
    [method |-> method, path |-> path, params |-> params, json_body |-> json_body,
     headers |-> headers, expect_binary |-> expect_binary]

\* request keeping the merged headers of the call as the instance's defaults
request_send_keeps_overrides(self, d) ==
    LET normalized_path == _normalize_path(d.path)
        url == urljoin(self.base_url \o "/", lstrip_chars(normalized_path, {"/"}))
        built == _build_headers(self, d.headers)
    IN  [kwargs |-> [method |-> upper(d.method), url |-> url, params |-> d.params,
                     json |-> d.json_body, headers |-> built.merged,
                     timeout |-> self.timeout],
         self |-> [self EXCEPT !.default_headers = built.merged]]

\* TlyClient.request, up to the call of self.session.request: the keyword
\* arguments handed to the transport, and the instance after building them
request_send(self, d) ==
    LET normalized_path == _normalize_path(d.path)
        url == urljoin(self.base_url \o "/", lstrip_chars(normalized_path, {"/"}))
        built == _build_headers(self, d.headers)
    IN  [kwargs |-> [method |-> upper(d.method), url |-> url, params |-> d.params,
                     json |-> d.json_body, headers |-> built.merged,
                     timeout |-> self.timeout],
         self |-> [self EXCEPT !.default_headers = built.default_headers]]

\* request_finish with the status test off by one (> 400)
request_finish_above_400(d, resp) ==
    IF resp.status_code > 400
    THEN Raise(TlyAPIError(resp.status_code, _extract_error_message(resp), ResponseText(resp)))
    ELSE _parse_response(resp, d.expect_binary)

\* TlyClient.request, from the return of self.session.request on
request_finish(d, resp) ==
    IF resp.status_code >= 400
    THEN Raise(TlyAPIError(resp.status_code, _extract_error_message(resp), ResponseText(resp)))
    ELSE _parse_response(resp, d.expect_binary)

----------------------------------------------------------------------------
(* client.py: the per-operation methods. A call's keyword arguments kw are *)
(* a function from parameter names to Python values; a parameter the       *)
(* caller did not pass is outside DOMAIN kw and takes its default.         *)

Arg(kw, name, default) == IF name \in DOMAIN kw THEN kw[name] ELSE default

\* payload[key] = value without the test for None
put_always(items, key, value) == dict_set(items, key, value)

\* if value is not None: payload[key] = value
put_if_not_none(items, key, value) == IF value # None THEN dict_set(items, key, value) ELSE items

\* a or b
py_or(a, b) == IF truthy(a) THEN a ELSE b

\* list(values)
py_list(values) == PyList(values.v)

\* f"{prefix}{value}"
fmt_path(prefix, value) == prefix \o py_str(value)

get_onelink_stats(kw) ==
    LET params0 == << <<"short_url", kw["short_url"]>> >>
        start_date == Arg(kw, "start_date", None)
        end_date == Arg(kw, "end_date", None)
        params1 == IF start_date # None THEN dict_set(params0, "start_date", _as_iso(start_date)) ELSE params0
        params2 == IF end_date # None THEN dict_set(params1, "end_date", _as_iso(end_date)) ELSE params1
    IN  Descriptor("GET", "/api/v1/onelink/stats", PyDict(params2), None, None, FALSE)

\* delete_onelink_stats sent to the path of get_onelink_stats
delete_onelink_stats_plural(kw) ==
    Descriptor("DELETE", "/api/v1/onelink/stats", None,
               PyDict(<< <<"short_url", kw["short_url"]>> >>), None, FALSE)

delete_onelink_stats(kw) ==
    Descriptor("DELETE", "/api/v1/onelink/stat", None,
               PyDict(<< <<"short_url", kw["short_url"]>> >>), None, FALSE)

create_short_link(kw) ==
    LET expire_at_datetime == Arg(kw, "expire_at_datetime", None)
        payload0 == << <<"long_url", kw["long_url"]>> >>
        payload1 == put_if_not_none(payload0, "domain", Arg(kw, "domain", None))
        payload2 == IF expire_at_datetime # None
                    THEN dict_set(payload1, "expire_at_datetime", _as_iso(expire_at_datetime))
                    ELSE payload1
        payload3 == put_if_not_none(payload2, "description", Arg(kw, "description", None))
        payload4 == put_if_not_none(payload3, "public_stats", Arg(kw, "public_stats", None))
        payload5 == put_if_not_none(payload4, "meta", Arg(kw, "meta", None))
    IN  Descriptor("POST", "/api/v1/link/shorten", None, PyDict(payload5), None, FALSE)

get_short_link(kw) ==
    Descriptor("GET", "/api/v1/link", PyDict(<< <<"short_url", kw["short_url"]>> >>),
               None, None, FALSE)

update_short_link(kw) ==
    LET expire_at_datetime == Arg(kw, "expire_at_datetime", None)
        payload0 == << <<"short_url", kw["short_url"]>> >>
        payload1 == put_if_not_none(payload0, "long_url", Arg(kw, "long_url", None))
        payload2 == IF expire_at_datetime # None
                    THEN dict_set(payload1, "expire_at_datetime", _as_iso(expire_at_datetime))
                    ELSE payload1
        payload3 == put_if_not_none(payload2, "description", Arg(kw, "description", None))
        payload4 == put_if_not_none(payload3, "public_stats", Arg(kw, "public_stats", None))
        payload5 == put_if_not_none(payload4, "meta", Arg(kw, "meta", None))
    IN  Descriptor("PUT", "/api/v1/link", None, PyDict(payload5), None, FALSE)

delete_short_link(kw) ==
    Descriptor("DELETE", "/api/v1/link", None,
               PyDict(<< <<"short_url", kw["short_url"]>> >>), None, FALSE)

expand_short_link(kw) ==
    LET payload0 == << <<"short_url", kw["short_url"]>> >>
        payload1 == put_if_not_none(payload0, "password", Arg(kw, "password", None))
    IN  Descriptor("POST", "/api/v1/link/expand", None, PyDict(payload1), None, FALSE)

list_short_links(kw) ==
    LET search == Arg(kw, "search", None)
        start_date == Arg(kw, "start_date", None)
        end_date == Arg(kw, "end_date", None)
        params0 == IF search # None THEN << <<"search", search>> >> ELSE <<>>
        params1 == _add_indexed_params(params0, "tag_ids", Arg(kw, "tag_ids", None))
        params2 == _add_indexed_params(params1, "pixel_ids", Arg(kw, "pixel_ids", None))
        params3 == _add_indexed_params(params2, "domains", Arg(kw, "domains", None))
        params4 == IF start_date # None
                   THEN Append(params3, <<"start_date", py_or(_as_iso(start_date), PyStr(""))>>)
                   ELSE params3
        params5 == IF end_date # None
                   THEN Append(params4, <<"end_date", py_or(_as_iso(end_date), PyStr(""))>>)
                   ELSE params4
    IN  Descriptor("GET", "/api/v1/link/list", PyList(params5), None, None, FALSE)

bulk_shorten_links(kw) ==
    LET tags == Arg(kw, "tags", None)
        pixels == Arg(kw, "pixels", None)
        payload0 == << <<"links", kw["links"]>> >>
        payload1 == put_if_not_none(payload0, "domain", Arg(kw, "domain", None))
        payload2 == IF tags # None THEN dict_set(payload1, "tags", py_list(tags)) ELSE payload1
        payload3 == IF pixels # None THEN dict_set(payload2, "pixels", py_list(pixels)) ELSE payload2
    IN  Descriptor("POST", "/api/v1/link/bulk", None, PyDict(payload3), None, FALSE)

bulk_update_links(kw) ==
    LET tags == Arg(kw, "tags", None)
        pixels == Arg(kw, "pixels", None)
        payload0 == << <<"links", kw["links"]>> >>
        payload1 == IF tags # None THEN dict_set(payload0, "tags", py_list(tags)) ELSE payload0
        payload2 == IF pixels # None THEN dict_set(payload1, "pixels", py_list(pixels)) ELSE payload1
    IN  Descriptor("POST", "/api/v1/link/bulk/update", None, PyDict(payload2), None, FALSE)

get_link_stats(kw) ==
    LET params0 == << <<"short_url", kw["short_url"]>> >>
        start_date == Arg(kw, "start_date", None)
        end_date == Arg(kw, "end_date", None)
        params1 == IF start_date # None THEN dict_set(params0, "start_date", _as_iso(start_date)) ELSE params0
        params2 == IF end_date # None THEN dict_set(params1, "end_date", _as_iso(end_date)) ELSE params1
    IN  Descriptor("GET", "/api/v1/link/stats", PyDict(params2), None, None, FALSE)

\* the payload of create_utm_preset and update_utm_preset
utm_payload(kw) ==
    LET payload0 == << <<"name", kw["name"]>>, <<"source", kw["source"]>>,
                       <<"medium", kw["medium"]>>, <<"campaign", kw["campaign"]>> >>
        payload1 == put_if_not_none(payload0, "content", Arg(kw, "content", None))
    IN  put_if_not_none(payload1, "term", Arg(kw, "term", None))

create_utm_preset(kw) ==
    Descriptor("POST", "/api/v1/link/utm-preset", None, PyDict(utm_payload(kw)), None, FALSE)

list_utm_presets(kw) ==
    Descriptor("GET", "/api/v1/link/utm-preset", None, None, None, FALSE)

get_utm_preset(kw) ==
    Descriptor("GET", fmt_path("/api/v1/link/utm-preset/", kw["preset_id"]), None, None, None, FALSE)

update_utm_preset(kw) ==
    Descriptor("PUT", fmt_path("/api/v1/link/utm-preset/", kw["preset_id"]), None,
               PyDict(utm_payload(kw)), None, FALSE)

delete_utm_preset(kw) ==
    Descriptor("DELETE", fmt_path("/api/v1/link/utm-preset/", kw["preset_id"]), None, None, None, FALSE)

list_onelinks(kw) ==
    LET params == put_if_not_none(<<>>, "page", Arg(kw, "page", PyInt(1)))
    IN  Descriptor("GET", "/api/v1/onelink/list", PyDict(params), None, None, FALSE)

create_pixel(kw) ==
    Descriptor("POST", "/api/v1/link/pixel", None,
               PyDict(<< <<"name", kw["name"]>>, <<"pixel_id", kw["pixel_id"]>>,
                         <<"pixel_type", kw["pixel_type"]>> >>), None, FALSE)

list_pixels(kw) ==
    Descriptor("GET", "/api/v1/link/pixel", None, None, None, FALSE)

get_pixel(kw) ==
    Descriptor("GET", fmt_path("/api/v1/link/pixel/", kw["pixel_id"]), None, None, None, FALSE)

update_pixel(kw) ==
    Descriptor("PUT", fmt_path("/api/v1/link/pixel/", kw["pixel_record_id"]), None,
               PyDict(<< <<"id", kw["pixel_record_id"]>>, <<"name", kw["name"]>>,
                         <<"pixel_id", kw["pixel_id"]>>, <<"pixel_type", kw["pixel_type"]>> >>),
               None, FALSE)

delete_pixel(kw) ==
    Descriptor("DELETE", fmt_path("/api/v1/link/pixel/", kw["pixel_id"]), None, None, None, FALSE)

get_qr_code(kw) ==
    LET output == Arg(kw, "output", PyStr("image"))
        fmt == Arg(kw, "fmt", PyStr("png"))
        params == << <<"short_url", kw["short_url"]>>, <<"output", output>>, <<"format", fmt>> >>
        expect_binary == (output = PyStr("image"))
        headers == IF expect_binary THEN PyDict(<< <<"Accept", PyStr("image/png,*/*")>> >>) ELSE None
    IN  Descriptor("GET", "/api/v1/link/qr-code", PyDict(params), None, headers, expect_binary)

update_qr_code(kw) ==
    LET payload0 == << <<"short_url", kw["short_url"]>> >>
        payload1 == put_if_not_none(payload0, "image", Arg(kw, "image", None))
        payload2 == put_if_not_none(payload1, "background_color", Arg(kw, "background_color", None))
        payload3 == put_if_not_none(payload2, "corner_dots_color", Arg(kw, "corner_dots_color", None))
        payload4 == put_if_not_none(payload3, "dots_color", Arg(kw, "dots_color", None))
        payload5 == put_if_not_none(payload4, "dots_style", Arg(kw, "dots_style", None))
        payload6 == put_if_not_none(payload5, "corner_style", Arg(kw, "corner_style", None))
    IN  Descriptor("PUT", "/api/v1/link/qr-code", None, PyDict(payload6), None, FALSE)

list_tags(kw) ==
    Descriptor("GET", "/api/v1/link/tag", None, None, None, FALSE)

create_tag(kw) ==
    Descriptor("POST", "/api/v1/link/tag", None, PyDict(<< <<"tag", kw["tag"]>> >>), None, FALSE)

get_tag(kw) ==
    Descriptor("GET", fmt_path("/api/v1/link/tag/", kw["tag_id"]), None, None, None, FALSE)

update_tag(kw) ==
    Descriptor("PUT", fmt_path("/api/v1/link/tag/", kw["tag_id"]), None,
               PyDict(<< <<"tag", kw["tag"]>> >>), None, FALSE)

delete_tag(kw) ==
    Descriptor("DELETE", fmt_path("/api/v1/link/tag/", kw["tag_id"]), None, None, None, FALSE)

\* the parameters of each method's signature: those without a default, those with one
Signature(name) ==
    IF name = "get_onelink_stats" THEN [required |-> {"short_url"}, optional |-> {"start_date", "end_date"}]
    ELSE IF name = "delete_onelink_stats" THEN [required |-> {"short_url"}, optional |-> {}]
    ELSE IF name = "create_short_link" THEN [required |-> {"long_url"}, optional |-> {"domain", "expire_at_datetime", "description", "public_stats", "meta"}]
    ELSE IF name = "get_short_link" THEN [required |-> {"short_url"}, optional |-> {}]
    ELSE IF name = "update_short_link" THEN [required |-> {"short_url"}, optional |-> {"long_url", "expire_at_datetime", "description", "public_stats", "meta"}]
    ELSE IF name = "delete_short_link" THEN [required |-> {"short_url"}, optional |-> {}]
    ELSE IF name = "expand_short_link" THEN [required |-> {"short_url"}, optional |-> {"password"}]
    ELSE IF name = "list_short_links" THEN [required |-> {}, optional |-> {"search", "tag_ids", "pixel_ids", "domains", "start_date", "end_date"}]
    ELSE IF name = "bulk_shorten_links" THEN [required |-> {"links"}, optional |-> {"domain", "tags", "pixels"}]
    ELSE IF name = "bulk_update_links" THEN [required |-> {"links"}, optional |-> {"tags", "pixels"}]
    ELSE IF name = "get_link_stats" THEN [required |-> {"short_url"}, optional |-> {"start_date", "end_date"}]
    ELSE IF name = "create_utm_preset" THEN [required |-> {"name", "source", "medium", "campaign"}, optional |-> {"content", "term"}]
    ELSE IF name = "list_utm_presets" THEN [required |-> {}, optional |-> {}]
    ELSE IF name = "get_utm_preset" THEN [required |-> {"preset_id"}, optional |-> {}]
    ELSE IF name = "update_utm_preset" THEN [required |-> {"preset_id", "name", "source", "medium", "campaign"}, optional |-> {"content", "term"}]
    ELSE IF name = "delete_utm_preset" THEN [required |-> {"preset_id"}, optional |-> {}]
    ELSE IF name = "list_onelinks" THEN [required |-> {}, optional |-> {"page"}]
    ELSE IF name = "create_pixel" THEN [required |-> {"name", "pixel_id", "pixel_type"}, optional |-> {}]
    ELSE IF name = "list_pixels" THEN [required |-> {}, optional |-> {}]
    ELSE IF name = "get_pixel" THEN [required |-> {"pixel_id"}, optional |-> {}]
    ELSE IF name = "update_pixel" THEN [required |-> {"pixel_record_id", "name", "pixel_id", "pixel_type"}, optional |-> {}]
    ELSE IF name = "delete_pixel" THEN [required |-> {"pixel_id"}, optional |-> {}]
    ELSE IF name = "get_qr_code" THEN [required |-> {"short_url"}, optional |-> {"output", "fmt"}]
    ELSE IF name = "update_qr_code" THEN [required |-> {"short_url"}, optional |-> {"image", "background_color", "corner_dots_color", "dots_color", "dots_style", "corner_style"}]
    ELSE IF name = "list_tags" THEN [required |-> {}, optional |-> {}]
    ELSE IF name = "create_tag" THEN [required |-> {"tag"}, optional |-> {}]
    ELSE IF name = "get_tag" THEN [required |-> {"tag_id"}, optional |-> {}]
    ELSE IF name = "update_tag" THEN [required |-> {"tag_id", "tag"}, optional |-> {}]
    ELSE IF name = "delete_tag" THEN [required |-> {"tag_id"}, optional |-> {}]
    ELSE [required |-> {}, optional |-> {}]

\* the names of TlyClient's per-operation methods (what getattr(client, name) finds)
ClientMethods ==
    {"get_onelink_stats", "delete_onelink_stats", "create_short_link", "get_short_link",
     "update_short_link", "delete_short_link", "expand_short_link", "list_short_links",
     "bulk_shorten_links", "bulk_update_links", "get_link_stats", "create_utm_preset",
     "list_utm_presets", "get_utm_preset", "update_utm_preset", "delete_utm_preset",
     "list_onelinks", "create_pixel", "list_pixels", "get_pixel",
     "update_pixel", "delete_pixel", "get_qr_code", "update_qr_code",
     "list_tags", "create_tag", "get_tag", "update_tag",
     "delete_tag"}

\* whether Python can bind the keyword arguments kw to the method's parameters;
\* when it cannot, the call raises TypeError before the method's body runs
Binds(name, kw) ==
    /\ Signature(name).required \subseteq DOMAIN kw
    /\ DOMAIN kw \subseteq Signature(name).required \cup Signature(name).optional

\* what getattr(client, name) finds when TlyClient has no such method
NoSuchMethod == [t |-> "AttributeError"]

\* getattr(client, name)(**kw), up to the method's call of self.request: the
\* request descriptor it builds
MethodDescriptor(name, kw) ==
    IF name = "get_onelink_stats" THEN get_onelink_stats(kw)
    ELSE IF name = "delete_onelink_stats" THEN delete_onelink_stats(kw)
    ELSE IF name = "create_short_link" THEN create_short_link(kw)
    ELSE IF name = "get_short_link" THEN get_short_link(kw)
    ELSE IF name = "update_short_link" THEN update_short_link(kw)
    ELSE IF name = "delete_short_link" THEN delete_short_link(kw)
    ELSE IF name = "expand_short_link" THEN expand_short_link(kw)
    ELSE IF name = "list_short_links" THEN list_short_links(kw)
    ELSE IF name = "bulk_shorten_links" THEN bulk_shorten_links(kw)
    ELSE IF name = "bulk_update_links" THEN bulk_update_links(kw)
    ELSE IF name = "get_link_stats" THEN get_link_stats(kw)
    ELSE IF name = "create_utm_preset" THEN create_utm_preset(kw)
    ELSE IF name = "list_utm_presets" THEN list_utm_presets(kw)
    ELSE IF name = "get_utm_preset" THEN get_utm_preset(kw)
    ELSE IF name = "update_utm_preset" THEN update_utm_preset(kw)
    ELSE IF name = "delete_utm_preset" THEN delete_utm_preset(kw)
    ELSE IF name = "list_onelinks" THEN list_onelinks(kw)
    ELSE IF name = "create_pixel" THEN create_pixel(kw)
    ELSE IF name = "list_pixels" THEN list_pixels(kw)
    ELSE IF name = "get_pixel" THEN get_pixel(kw)
    ELSE IF name = "update_pixel" THEN update_pixel(kw)
    ELSE IF name = "delete_pixel" THEN delete_pixel(kw)
    ELSE IF name = "get_qr_code" THEN get_qr_code(kw)
    ELSE IF name = "update_qr_code" THEN update_qr_code(kw)
    ELSE IF name = "list_tags" THEN list_tags(kw)
    ELSE IF name = "create_tag" THEN create_tag(kw)
    ELSE IF name = "get_tag" THEN get_tag(kw)
    ELSE IF name = "update_tag" THEN update_tag(kw)
    ELSE IF name = "delete_tag" THEN delete_tag(kw)
    ELSE NoSuchMethod

----------------------------------------------------------------------------
(* endpoints.py *)

Endpoint(method, path, group, label) ==
    [method |-> method, path |-> path, group |-> group, label |-> label]

ENDPOINTS ==
    [get_onelink_stats |-> Endpoint("GET", "/api/v1/onelink/stats", "OneLink Stats Management", "api/v1/onelink/stats"),
     delete_onelink_stats |-> Endpoint("DELETE", "/api/v1/onelink/stat", "OneLink Stats Management", "Delete OneLink Stats"),
     create_short_link |-> Endpoint("POST", "/api/v1/link/shorten", "ShortLink Management", "Create Short Link"),
     get_short_link |-> Endpoint("GET", "/api/v1/link", "ShortLink Management", "Get Short Link"),
     update_short_link |-> Endpoint("PUT", "/api/v1/link", "ShortLink Management", "Update Short Link"),
     delete_short_link |-> Endpoint("DELETE", "/api/v1/link", "ShortLink Management", "Delete Short Link"),
     expand_short_link |-> Endpoint("POST", "/api/v1/link/expand", "ShortLink Management", "Expand Short Link"),
     list_short_links |-> Endpoint("GET", "/api/v1/link/list", "ShortLink Management", "List Short Links"),
     bulk_shorten_links |-> Endpoint("POST", "/api/v1/link/bulk", "ShortLink Management", "Bulk Shorten Links"),
     bulk_update_links |-> Endpoint("POST", "/api/v1/link/bulk/update", "ShortLink Management", "Bulk Update Links"),
     get_link_stats |-> Endpoint("GET", "/api/v1/link/stats", "ShortLink Stats", "Stats"),
     create_utm_preset |-> Endpoint("POST", "/api/v1/link/utm-preset", "UTM Preset Management", "Create UTM Preset"),
     list_utm_presets |-> Endpoint("GET", "/api/v1/link/utm-preset", "UTM Preset Management", "List UTM Presets"),
     get_utm_preset |-> Endpoint("GET", "/api/v1/link/utm-preset/{id}", "UTM Preset Management", "Get UTM Preset"),
     update_utm_preset |-> Endpoint("PUT", "/api/v1/link/utm-preset/{id}", "UTM Preset Management", "Update UTM Preset"),
     delete_utm_preset |-> Endpoint("DELETE", "/api/v1/link/utm-preset/{id}", "UTM Preset Management", "Delete UTM Preset"),
     list_onelinks |-> Endpoint("GET", "/api/v1/onelink/list", "OneLink Management", "List OneLinks"),
     create_pixel |-> Endpoint("POST", "/api/v1/link/pixel", "Pixel Management", "Create Pixel"),
     list_pixels |-> Endpoint("GET", "/api/v1/link/pixel", "Pixel Management", "List Pixel"),
     get_pixel |-> Endpoint("GET", "/api/v1/link/pixel/{id}", "Pixel Management", "Get Pixel"),
     update_pixel |-> Endpoint("PUT", "/api/v1/link/pixel/{id}", "Pixel Management", "Update Pixel"),
     delete_pixel |-> Endpoint("DELETE", "/api/v1/link/pixel/{id}", "Pixel Management", "Delete Pixel"),
     get_qr_code |-> Endpoint("GET", "/api/v1/link/qr-code", "QR Code Management", "Get QR Code"),
     update_qr_code |-> Endpoint("PUT", "/api/v1/link/qr-code", "QR Code Management", "Update QR Code"),
     list_tags |-> Endpoint("GET", "/api/v1/link/tag", "Tag Management", "List Tag"),
     create_tag |-> Endpoint("POST", "/api/v1/link/tag", "Tag Management", "Create Tag"),
     get_tag |-> Endpoint("GET", "/api/v1/link/tag/{id}", "Tag Management", "Get Tag"),
     update_tag |-> Endpoint("PUT", "/api/v1/link/tag/{id}", "Tag Management", "Update Tag"),
     delete_tag |-> Endpoint("DELETE", "/api/v1/link/tag/{id}", "Tag Management", "Delete Tag")]

\* tuple(ENDPOINTS.keys()), as the set of its elements
SUPPORTED_METHODS == DOMAIN ENDPOINTS

----------------------------------------------------------------------------
(* The inputs of the model: what callers pass and what the server answers  *)

\* the longest list passed as tag_ids, pixel_ids, domains, tags or pixels
MaxListLen == 2

RECURSIVE SeqsUpTo(_, _)
\* the sequences over S of length at most n
SeqsUpTo(S, n) ==
    IF n = 0 THEN {<<>>}
    ELSE LET shorter == SeqsUpTo(S, n - 1)
         IN  shorter \cup {Append(q, x) : q \in shorter, x \in S}

ListsOf(S) == {PyList(q) : q \in SeqsUpTo(S, MaxListLen)}

RECURSIVE KwProduct(_, _)
\* the functions on names that take at each name one of vals[name]
KwProduct(names, vals) ==
    IF names = {} THEN {<<>>}
    ELSE LET k == CHOOSE k \in names : TRUE
         IN  {(k :> v) @@ f : v \in vals[k], f \in KwProduct(names \ {k}, vals)}

\* the keyword arguments of a call: every required parameter, any subset of
\* the optional ones
Kwargs(req, opt) ==
    UNION {KwProduct(DOMAIN req \cup S, req @@ opt) : S \in SUBSET DOMAIN opt}

NoArgs == [k \in {} |-> {}]

ShortUrl == {PyStr("t.ly/a")}
LongUrl == {PyStr("https://e.com")}
Text == {PyStr("d")}
Ids == {PyInt(7), PyInt(120), PyStr("ab")}
DateInputs ==
    {PyDate(2026, 3, 9), PyDateTime(2026, 3, 9, 0, 0, 0, 0), PyDateTime(2026, 11, 30, 14, 5, 7, 0),
     PyDateTime(2026, 3, 9, 14, 5, 7, 120), PyStr("2026-03-09"), PyStr("2026-03-09T00:00:00"),
     PyStr("2026-03-09 00:00:00"), PyStr("03/09/2026"), PyStr("")}
FewDates == {PyDate(2026, 3, 9), PyStr("2026-03-09")}
MetaValues == {PyDict(<< <<"k", PyInt(1)>> >>), PyList(<<PyList(<<>>)>>)}
Links == {PyList(<<PyDict(<< <<"long_url", PyStr("https://e.com")>> >>)>>), PyStr("https://e.com")}

\* for each method, the values the model passes for each parameter
Inputs(name) ==
    IF name \in {"get_onelink_stats", "get_link_stats"}
    THEN [req |-> [short_url |-> ShortUrl],
          opt |-> [start_date |-> DateInputs \cup {None}, end_date |-> FewDates]]
    ELSE IF name \in {"delete_onelink_stats", "get_short_link", "delete_short_link"}
    THEN [req |-> [short_url |-> ShortUrl], opt |-> NoArgs]
    ELSE IF name = "create_short_link"
    THEN [req |-> [long_url |-> LongUrl],
          opt |-> [domain |-> Text, expire_at_datetime |-> FewDates \cup {None}, description |-> Text,
                   public_stats |-> {PyBool(TRUE), PyBool(FALSE)}, meta |-> MetaValues]]
    ELSE IF name = "update_short_link"
    THEN [req |-> [short_url |-> ShortUrl],
          opt |-> [long_url |-> LongUrl, expire_at_datetime |-> FewDates, description |-> Text \cup {None},
                   public_stats |-> {PyBool(FALSE)}, meta |-> MetaValues]]
    ELSE IF name = "expand_short_link"
    THEN [req |-> [short_url |-> ShortUrl], opt |-> [password |-> {PyStr("pw"), PyStr(""), None}]]
    ELSE IF name = "list_short_links"
    THEN [req |-> NoArgs,
          opt |-> [search |-> {PyStr("q")},
                   tag_ids |-> ListsOf({PyInt(1), PyInt(23)}) \cup {None},
                   pixel_ids |-> ListsOf({PyInt(8)}),
                   domains |-> ListsOf({PyStr("x")}) \cup {PyList(<<PyInt(3), PyStr("x")>>)},
                   start_date |-> {PyDate(2026, 3, 9)}, end_date |-> {PyStr("")}]]
    ELSE IF name = "bulk_shorten_links"
    THEN [req |-> [links |-> Links],
          opt |-> [domain |-> Text \cup {None}, tags |-> ListsOf({PyInt(1)}) \cup {None},
                   pixels |-> ListsOf({PyStr("p")})]]
    ELSE IF name = "bulk_update_links"
    THEN [req |-> [links |-> Links],
          opt |-> [tags |-> ListsOf({PyInt(1)}), pixels |-> ListsOf({PyStr("p")}) \cup {None}]]
    ELSE IF name = "create_utm_preset"
    THEN [req |-> [name |-> Text, source |-> Text, medium |-> Text, campaign |-> Text],
          opt |-> [content |-> Text \cup {None}, term |-> Text \cup {None}]]
    ELSE IF name = "update_utm_preset"
    THEN [req |-> [preset_id |-> Ids, name |-> Text, source |-> Text, medium |-> Text, campaign |-> Text],
          opt |-> [content |-> Text \cup {None}, term |-> Text \cup {None}]]
    ELSE IF name \in {"get_utm_preset", "delete_utm_preset"}
    THEN [req |-> [preset_id |-> Ids], opt |-> NoArgs]
    ELSE IF name = "list_onelinks"
    THEN [req |-> NoArgs, opt |-> [page |-> {PyInt(1), PyInt(2), None}]]
    ELSE IF name = "create_pixel"
    THEN [req |-> [name |-> Text, pixel_id |-> Text, pixel_type |-> {PyStr("facebook")}], opt |-> NoArgs]
    ELSE IF name = "update_pixel"
    THEN [req |-> [pixel_record_id |-> Ids, name |-> Text, pixel_id |-> Text,
                   pixel_type |-> {PyStr("facebook")}], opt |-> NoArgs]
    ELSE IF name \in {"get_pixel", "delete_pixel"}
    THEN [req |-> [pixel_id |-> Ids], opt |-> NoArgs]
    ELSE IF name = "get_qr_code"
    THEN [req |-> [short_url |-> ShortUrl],
          opt |-> [output |-> {PyStr("image"), PyStr("base64")}, fmt |-> {PyStr("png"), PyStr("eps")}]]
    ELSE IF name = "update_qr_code"
    THEN [req |-> [short_url |-> ShortUrl],
          opt |-> [image |-> Text, background_color |-> {PyStr("#fff"), None}, corner_dots_color |-> Text,
                   dots_color |-> Text, dots_style |-> Text, corner_style |-> Text]]
    ELSE IF name \in {"create_tag"}
    THEN [req |-> [tag |-> {PyStr("fall2026")}], opt |-> NoArgs]
    ELSE IF name \in {"get_tag", "delete_tag"}
    THEN [req |-> [tag_id |-> Ids], opt |-> NoArgs]
    ELSE IF name = "update_tag"
    THEN [req |-> [tag_id |-> Ids, tag |-> {PyStr("fall2026")}], opt |-> NoArgs]
    ELSE [req |-> NoArgs, opt |-> NoArgs]

CallInputs(name) == Kwargs(Inputs(name).req, Inputs(name).opt)

\* what the caller constructs the client with
ClientConfigs ==
    {[api_token |-> PyStr("tok"), base_url |-> "https://api.t.ly"],
     [api_token |-> PyStr("s3cret"), base_url |-> "http://localhost:8080/v2/"],
     [api_token |-> PyStr(""), base_url |-> "https://api.t.ly"],
     [api_token |-> None, base_url |-> "https://api.t.ly"]}
DefaultTimeout == 30
DefaultUserAgent == "tly-url-shortener-api/0.1.0"

\* what the server answers
StatusCodes == {200, 204, 399, 400, 404, 500}
Bodies ==
    {<<>>, encode(" \n"), encode("{\"message\": \"bad\"}"), encode(" {\"id\": 7}\n"),
     encode(" OK \n"), <<32, 137, 80, 78, 71, 10>>, encode("[1]"), encode("{bad"), encode("7")}
ContentTypes ==
    {<< <<"Content-Type", PyStr("application/json")>> >>,
     << <<"Content-Type", PyStr("Application/JSON; charset=utf-8")>> >>,
     << <<"Content-Type", PyStr("text/plain")>> >>,
     << <<"Content-Type", PyStr("image/png")>> >>,
     <<>>}

Response(status_code, content, headers) ==
    [kind |-> "response", status_code |-> status_code, content |-> content, headers |-> headers]

Responses == {Response(st, b, h) : st \in StatusCodes, b \in Bodies, h \in ContentTypes}

\* the answers the model gives to every call
CommonResponses ==
    {Response(200, encode(" {\"id\": 7}\n"), << <<"Content-Type", PyStr("application/json")>> >>),
     Response(200, <<>>, <<>>),
     Response(422, encode("{\"message\": \"bad\"}"), << <<"Content-Type", PyStr("application/json")>> >>)}

\* the bodies of the error answers the model gives to delete_tag
ErrorBodies ==
    {"{\"message\": \"m\", \"error\": \"e\"}",
     "{\"message\": 5, \"error\": \"e\"}",
     "{\"message\": null, \"error\": [\"x\"], \"errors\": {\"f\": [\"r\"]}}",
     "{\"error\": {\"a\": 1}, \"errors\": [\"a\", 2]}",
     "{\"errors\": \"s\"}",
     "{\"errors\": [], \"error\": null}",
     "{\"message\": true}",
     "{\"message\": \"\"}",
     "{\"code\": 7}",
     "{}",
     "[\"message\"]",
     "\"down\"",
     "7",
     "null",
     "false",
     "oops",
     "{\"message\": \"m\"",
     " \n",
     ""}

ErrorResponses ==
    {Response(st, encode(b), h) :
        st \in {400, 500}, b \in ErrorBodies,
        h \in {<< <<"Content-Type", PyStr("application/json")>> >>, <<>>}}

\* the failures of the transport: requests.exceptions.Timeout, ConnectionError
TransportFailures == {"Timeout", "ConnectionError"}

NoCall == [via |-> "none"]
NoDescriptor == [t |-> "none"]
NoResponse == [kind |-> "none"]
NoOutcome == [kind |-> "none"]
NoCli == [t |-> "none"]

\* the calls whose answer the model draws from all of Responses; the others
\* are answered from CommonResponses
Probed(c) ==
    \/ c.via \in {"method", "cli"} /\ c.name \in {"get_qr_code", "create_tag", "list_tags"}
    \/ c.via = "request"

ResponsesTo(c) ==
    IF Probed(c) THEN Responses
    ELSE IF c.via = "method" /\ c.name = "delete_tag" THEN CommonResponses \cup ErrorResponses
    ELSE CommonResponses

----------------------------------------------------------------------------
(* The library in use: a caller constructs a client and calls it           *)

Init ==
    /\ given = NoCall
    /\ client = NoClient
    /\ pc = "start"
    /\ call = NoCall
    /\ descriptor = NoDescriptor
    /\ calls = <<>>
    /\ response = NoResponse
    /\ outcome = NoOutcome
    /\ cli = NoCli

\* client = TlyClient(api_token, base_url=base_url)
Construct ==
    /\ pc = "start"
    /\ \E cfg \in ClientConfigs :
         LET made == TlyClient_init(cfg.api_token, cfg.base_url, DefaultTimeout, DefaultUserAgent)
         IN  /\ given' = [api_token |-> cfg.api_token, base_url |-> cfg.base_url,
                          timeout |-> DefaultTimeout, user_agent |-> DefaultUserAgent]
             /\ call' = NoCall
             /\ IF made.kind = "return"
                THEN client' = made.value /\ pc' = "idle" /\ outcome' = NoOutcome
                ELSE client' = client /\ pc' = "failed" /\ outcome' = made
    /\ UNCHANGED <<descriptor, calls, response, cli>>

\* TlyClient.request(...) entered with descriptor d: the exchange is handed to
\* the transport and the caller blocks in self.session.request
Send(self, c, d) ==
    LET sent == request_send(self, d)
    IN  /\ call' = c
        /\ descriptor' = d
        /\ calls' = Append(calls, sent.kwargs)
        /\ client' = sent.self
        /\ pc' = "inflight"
        /\ UNCHANGED <<response, outcome>>

\* client.<name>(**kw) for a per-operation method
CallMethod(name) ==
    /\ pc = "idle"
    /\ \E kw \in CallInputs(name) :
         Send(client, [via |-> "method", name |-> name, kw |-> kw], MethodDescriptor(name, kw))
    /\ UNCHANGED <<given, cli>>

\* what callers pass to TlyClient.request directly
RequestMethods == {"get", "POST"}
RequestPaths == {"/api/v1/link/tag", "api/v1/link/tag", "/api/v1/link/tag/../../x", "//evil.example/x",
                 "https://evil.example/x"}
RequestHeaders ==
    {None, PyDict(<<>>), PyDict(<< <<"Accept", PyStr("text/csv")>>, <<"X-Trace", PyStr("1")>> >>),
     PyDict(<< <<"Authorization", PyStr("Bearer other")>> >>)}

\* client.request(method, path, headers=..., expect_binary=...)
CallRequest ==
    /\ pc = "idle"
    /\ \E method \in RequestMethods, path \in RequestPaths, headers \in RequestHeaders,
          expect_binary \in BOOLEAN :
         /\ path = "/api/v1/link/tag" \/ (headers = None /\ ~expect_binary /\ method = "get")
         /\ Send(client,
                 [via |-> "request", name |-> "request",
                  kw |-> [method |-> PyStr(method), path |-> PyStr(path), headers |-> headers,
                          expect_binary |-> PyBool(expect_binary)]],
                 Descriptor(method, path, None, None, headers, expect_binary))
    /\ UNCHANGED <<given, cli>>

\* self.session.request returns a response; request() evaluates it
Respond ==
    /\ pc = "inflight"
    /\ call.via \in {"method", "request"}
    /\ \E resp \in ResponsesTo(call) :
         /\ response' = resp
         /\ outcome' = request_finish(descriptor, resp)
    /\ pc' = "done"
    /\ UNCHANGED <<given, client, call, descriptor, calls, cli>>

\* a transport failure answered by sending the request once more
TransportFails_retry ==
    /\ pc = "inflight"
    /\ call.via \in {"method", "request"}
    /\ Len(calls) < 3
    /\ \E failure \in TransportFailures :
         response' = [kind |-> "failure", exc |-> failure]
    /\ calls' = Append(calls, calls[Len(calls)])
    /\ UNCHANGED <<given, client, pc, call, descriptor, outcome, cli>>

\* self.session.request raises: the exception propagates out of request()
TransportFails ==
    /\ pc = "inflight"
    /\ call.via \in {"method", "request"}
    /\ \E failure \in TransportFailures :
         /\ response' = [kind |-> "failure", exc |-> failure]
         /\ outcome' = Raise(Exc(failure, "transport failure"))
    /\ pc' = "done"
    /\ UNCHANGED <<given, client, call, descriptor, calls, cli>>

\* the caller has the result or the exception; the values of the call are discarded
Finish ==
    /\ pc = "done"
    /\ pc' = "idle"
    /\ call' = NoCall
    /\ descriptor' = NoDescriptor
    /\ calls' = <<>>
    /\ response' = NoResponse
    /\ outcome' = NoOutcome
    /\ UNCHANGED <<given, client, cli>>

Next ==
    \/ Construct
    \/ CallMethod("get_onelink_stats")
    \/ CallMethod("delete_onelink_stats")
    \/ CallMethod("create_short_link")
    \/ CallMethod("get_short_link")
    \/ CallMethod("update_short_link")
    \/ CallMethod("delete_short_link")
    \/ CallMethod("expand_short_link")
    \/ CallMethod("list_short_links")
    \/ CallMethod("bulk_shorten_links")
    \/ CallMethod("bulk_update_links")
    \/ CallMethod("get_link_stats")
    \/ CallMethod("create_utm_preset")
    \/ CallMethod("list_utm_presets")
    \/ CallMethod("get_utm_preset")
    \/ CallMethod("update_utm_preset")
    \/ CallMethod("delete_utm_preset")
    \/ CallMethod("list_onelinks")
    \/ CallMethod("create_pixel")
    \/ CallMethod("list_pixels")
    \/ CallMethod("get_pixel")
    \/ CallMethod("update_pixel")
    \/ CallMethod("delete_pixel")
    \/ CallMethod("get_qr_code")
    \/ CallMethod("update_qr_code")
    \/ CallMethod("list_tags")
    \/ CallMethod("create_tag")
    \/ CallMethod("get_tag")
    \/ CallMethod("update_tag")
    \/ CallMethod("delete_tag")
    \/ CallRequest
    \/ Respond
    \/ TransportFails
    \/ Finish

Spec == Init /\ [][Next]_vars

----------------------------------------------------------------------------
(* cli.py: one run of main(argv). argparse (the parser of _build_parser) *)
(* turns argv into args; the model draws args, and lets the parser reject *)
(* a `call` whose method is not among its choices, SUPPORTED_METHODS.     *)

\* _parse_data taking JSON that is not an object for an empty object
_parse_data_lenient(raw) ==
    IF ~truthy(raw) THEN Return(PyDict(<<>>))
    ELSE LET data == json_loads(raw.v)
         IN  IF ~data.ok THEN Raise(Exc("JSONDecodeError", "Expecting value"))
             ELSE IF ~IsDict(data.v) THEN Return(PyDict(<<>>))
             ELSE Return(data.v)

\* _parse_data(raw): the dict, or the exception raised
_parse_data(raw) ==
    IF ~truthy(raw) THEN Return(PyDict(<<>>))
    ELSE LET data == json_loads(raw.v)
         IN  IF ~data.ok THEN Raise(Exc("JSONDecodeError", "Expecting value"))
             ELSE IF ~IsDict(data.v) THEN Raise(Exc("ValueError", "--data must be a JSON object"))
             ELSE Return(data.v)

\* **payload: the keyword arguments a dict unpacks to
Unpack(items) == [k \in dict_keys(items) |-> dict_get(items, k)]

\* the shorten command once --meta-json is decoded
shorten_call(args, meta) ==
    IF ~meta.ok THEN Raise(Exc("JSONDecodeError", "Expecting value"))
    ELSE [kind |-> "call", name |-> "create_short_link",
          kw |-> [long_url |-> args.long_url, domain |-> args.domain,
                  description |-> args.description,
                  expire_at_datetime |-> args.expire_at_datetime,
                  public_stats |-> IF args.public_stats THEN PyBool(TRUE) ELSE None,
                  meta |-> meta.v]]

\* the call command once --data is parsed
named_call(args, payload) ==
    IF payload.kind = "raise" THEN payload
    ELSE [kind |-> "call", name |-> args.method, kw |-> Unpack(payload.value.v)]

\* the body of the with block of main up to the call of the client method:
\* [kind |-> "call", name, kw], or the exception raised before the call
main_dispatch(args) ==
    IF args.command = "shorten"
    THEN shorten_call(args, IF truthy(args.meta_json) THEN json_loads(args.meta_json.v)
                            ELSE [ok |-> TRUE, v |-> None])
    ELSE IF args.command = "expand"
    THEN [kind |-> "call", name |-> "expand_short_link",
          kw |-> [short_url |-> args.short_url, password |-> args.password]]
    ELSE IF args.command = "qr"
    THEN [kind |-> "call", name |-> "get_qr_code",
          kw |-> [short_url |-> args.short_url, output |-> args.output, fmt |-> args.format]]
    ELSE named_call(args, _parse_data(args.data))

\* getattr(client, name) and the binding of **kw to the method's parameters:
\* the exception raised on the way to the method's body, NoOutcome if none
call_raises(step) ==
    IF step.kind = "raise" THEN step
    ELSE IF step.name \notin ClientMethods
    THEN Raise(Exc("AttributeError", "no attribute " \o step.name))
    ELSE IF ~Binds(step.name, step.kw)
    THEN Raise(Exc("TypeError", "unexpected or missing keyword argument"))
    ELSE NoOutcome

\* the except clauses of main, in their order: the exit code and what is
\* written to the error stream
main_except(exc) ==
    IF IsInstance(exc, "JSONDecodeError")
    THEN [exit_code |-> 2, stderr |-> <<"Invalid JSON input: " \o exc.str>>]
    ELSE IF IsInstance(exc, "ValueError")
    THEN [exit_code |-> 2, stderr |-> <<exc.str>>]
    ELSE IF IsInstance(exc, "TlyAPIError")
    THEN [exit_code |-> 1,
          stderr |-> IF exc.response_body # "" THEN <<exc.str, exc.response_body>> ELSE <<exc.str>>]
    ELSE [exit_code |-> 1, stderr |-> <<"Unexpected error: " \o exc.str>>]

\* _print_result(result), and the bytes branch of the qr command: what is
\* written to the output stream; the exit code is 0
_print_result(args, result) ==
    IF IsDict(result) \/ IsList(result) THEN <<[how |-> "json.dumps", value |-> result]>>
    ELSE IF IsBytes(result)
    THEN (IF args.command = "qr" /\ truthy(args.out)
          THEN <<[how |-> "file", value |-> result], [how |-> "print", value |-> args.out]>>
          ELSE <<[how |-> "buffer.write", value |-> result]>>)
    ELSE <<[how |-> "print", value |-> result]>>

Exited(args, exit_code, stderr, stdout) ==
    [args |-> args, exit_code |-> exit_code, stderr |-> stderr, stdout |-> stdout]

\* the --data arguments of `call`
DataArgs ==
    {None, PyStr(""), PyStr("{}"), PyStr("{\"tag\": \"x\"}"), PyStr("{\"short_url\": \"t.ly/a\"}"),
     PyStr("{\"tag_id\": 7}"), PyStr("{\"nope\": 1}"), PyStr("[]"), PyStr("[{}]"), PyStr("\"s\""),
     PyStr("0"), PyStr("12"), PyStr("true"), PyStr("false"), PyStr("null"), PyStr("{bad"),
     PyStr("{} x")}

CliTokens == {None, PyStr(""), PyStr("tok")}

CommonArgs(token, command) ==
    [token |-> token, base_url |-> "https://api.t.ly", timeout |-> DefaultTimeout, command |-> command]

\* the parsed arguments of the runs of the model
CliArgs ==
    {CommonArgs(token, "shorten") @@
        [long_url |-> PyStr("https://e.com"), domain |-> None, description |-> description,
         expire_at_datetime |-> None, public_stats |-> public_stats, meta_json |-> meta_json] :
        token \in CliTokens, description \in {None, PyStr("d")}, public_stats \in BOOLEAN,
        meta_json \in {None, PyStr(""), PyStr("{\"k\": 1}"), PyStr("[[]]"), PyStr("{bad")}}
    \cup
    {CommonArgs(token, "expand") @@ [short_url |-> PyStr("t.ly/a"), password |-> password] :
        token \in CliTokens, password \in {None, PyStr("pw")}}
    \cup
    {CommonArgs(token, "qr") @@
        [short_url |-> PyStr("t.ly/a"), output |-> output, format |-> PyStr("png"), out |-> out] :
        token \in CliTokens, output \in {PyStr("image"), PyStr("base64")},
        out \in {None, PyStr("qr.png")}}
    \cup
    {CommonArgs(token, "call") @@ [method |-> method, data |-> data] :
        token \in CliTokens, method \in SUPPORTED_METHODS \cup {"request", "close"},
        data \in DataArgs}

\* the run ends with exit_code before any exchange
CliExit(args, exit_code, stderr) ==
    /\ cli' = Exited(args, exit_code, stderr, <<>>)
    /\ pc' = "exited"

\* the with block of main for the client self: an exception on the way to the
\* method's body leaves the block, which closes the client; else the request
\* is sent
CliWith(args, self, step, raised) ==
    IF raised.kind = "raise"
    THEN /\ client' = TlyClient_exit(self)
         /\ call' = IF step.kind = "call"
                    THEN [via |-> "cli", name |-> step.name, kw |-> step.kw]
                    ELSE NoCall
         /\ outcome' = raised
         /\ CliExit(args, main_except(raised.exc).exit_code, main_except(raised.exc).stderr)
         /\ UNCHANGED <<descriptor, calls, response>>
    ELSE /\ Send(self, [via |-> "cli", name |-> step.name, kw |-> step.kw],
                 MethodDescriptor(step.name, step.kw))
         /\ cli' = [args |-> args]

CliDispatch(args, self, step) == CliWith(args, self, step, call_raises(step))

\* main(argv), from parse_args to the call of the client method: the run
\* ends there (argparse's error, the missing token, an exception in the with
\* block) or blocks in the exchange
CliMain ==
    /\ pc = "start"
    /\ \E args \in CliArgs :
         IF args.command = "call" /\ args.method \notin SUPPORTED_METHODS
         THEN /\ CliExit(args, 2, <<"argument method: invalid choice">>)
              /\ UNCHANGED <<given, client, call, descriptor, calls, response, outcome>>
         ELSE IF ~truthy(args.token)
         THEN /\ CliExit(args, 2, <<"Missing token. Provide --token or set TLY_API_TOKEN.">>)
              /\ UNCHANGED <<given, client, call, descriptor, calls, response, outcome>>
         ELSE /\ given' = [api_token |-> args.token, base_url |-> args.base_url,
                           timeout |-> args.timeout, user_agent |-> DefaultUserAgent]
              /\ CliDispatch(args,
                             TlyClient_init(args.token, args.base_url, args.timeout,
                                            DefaultUserAgent).value,
                             main_dispatch(args))

\* the rest of main once the client method has ended with `ended`: the
\* result is printed or the exception handled, the with block closes the client
CliEnd(ended) ==
    /\ outcome' = ended
    /\ client' = TlyClient_exit(client)
    /\ cli' = IF ended.kind = "return"
              THEN Exited(cli.args, 0, <<>>, _print_result(cli.args, ended.value))
              ELSE Exited(cli.args, main_except(ended.exc).exit_code,
                          main_except(ended.exc).stderr, <<>>)
    /\ pc' = "exited"
    /\ UNCHANGED <<given, call, descriptor, calls>>

\* self.session.request returns a response during a CLI run
CliRespond ==
    /\ pc = "inflight"
    /\ call.via = "cli"
    /\ \E resp \in ResponsesTo(call) :
         /\ response' = resp
         /\ CliEnd(request_finish(descriptor, resp))

\* self.session.request raises during a CLI run
CliTransportFails ==
    /\ pc = "inflight"
    /\ call.via = "cli"
    /\ \E failure \in TransportFailures :
         /\ response' = [kind |-> "failure", exc |-> failure]
         /\ CliEnd(Raise(Exc(failure, "transport failure")))

NextCli ==
    \/ CliMain
    \/ CliRespond
    \/ CliTransportFails

SpecCli == Init /\ [][NextCli]_vars

----------------------------------------------------------------------------
(* Properties *)

\* a call of TlyClient.request has ended with a response from the server
Answered == pc = "done" /\ response.kind = "response"

\* the body of the response is a JSON object with a string `message` field
HasStringMessage(resp) ==
    LET body == json_loads(decode(resp.content))
    IN  body.ok /\ IsDict(body.v) /\ IsStr(dict_get(body.v.v, "message"))

RaisedApiError == outcome.kind = "raise" /\ outcome.exc.type = "TlyAPIError"

\* C1: a response with status >= 400 makes the call raise TlyAPIError, with
\* status_code the HTTP status, response_body the raw response text and, when
\* the body is a JSON object with a string `message`, message that field; a
\* response with status < 400 never raises TlyAPIError.
C1_ErrorStatusRaisesApiError ==
    Answered =>
        /\ response.status_code >= 400 =>
             /\ RaisedApiError
             /\ outcome.exc.status_code = response.status_code
             /\ outcome.exc.response_body = decode(response.content)
             /\ HasStringMessage(response) =>
                  outcome.exc.message = dict_get(json_loads(decode(response.content)).v.v, "message").v
        /\ response.status_code < 400 => ~RaisedApiError

\* an error response with a string message, answered to a call that expected binary
C1_Witness ==
    /\ Answered
    /\ response.status_code = 400
    /\ HasStringMessage(response)
    /\ descriptor.expect_binary
    /\ call.via = "method"
    /\ RaisedApiError

\* C4 as stated: status < 400 and an empty body give the empty mapping
C4_EmptyBodyGivesEmptyMapping ==
    (Answered /\ response.status_code < 400 /\ response.content = <<>>) =>
        outcome = Return(PyDict(<<>>))

\* C4, amended: status < 400 and an empty body give the empty mapping unless
\* binary output was expected, and then the empty byte string.
C4_EmptyBodyResult ==
    (Answered /\ response.status_code < 400 /\ response.content = <<>>) =>
        outcome = IF descriptor.expect_binary THEN Return(PyBytes(<<>>)) ELSE Return(PyDict(<<>>))

\* an empty body with a JSON content type, answered to a call that expected no binary
C4_Witness ==
    /\ Answered
    /\ response.status_code = 204
    /\ response.content = <<>>
    /\ ~descriptor.expect_binary
    /\ contains(lower(ResponseContentType(response)), "application/json")
    /\ outcome = Return(PyDict(<<>>))

\* C5: with binary output expected and status < 400, the result is the raw
\* body, byte for byte, whatever the Content-Type and the text.
C5_BinaryResultIsRawBody ==
    (Answered /\ response.status_code < 400 /\ descriptor.expect_binary) =>
        outcome = Return(PyBytes(response.content))

\* get_qr_code(output="image") answered with a JSON content type and a body
\* that trimming would change
C5_Witness ==
    /\ Answered
    /\ call.via = "method" /\ call.name = "get_qr_code"
    /\ descriptor.expect_binary
    /\ response.status_code = 200
    /\ response.content = <<32, 137, 80, 78, 71, 10>>
    /\ contains(lower(ResponseContentType(response)), "application/json")
    /\ outcome.kind = "return" /\ outcome.value.v = response.content

\* a per-operation method has handed its request to the transport
MethodCalled == call.via = "method" /\ calls # <<>>

\* the outgoing body or query of the call in progress, as <<key, value>> pairs
SentItems ==
    IF calls[1].json # None THEN calls[1].json.v
    ELSE IF calls[1].params # None THEN calls[1].params.v
    ELSE <<>>

\* the key a parameter is sent under
WireKey(param) ==
    IF param = "fmt" THEN "format" ELSE IF param = "pixel_record_id" THEN "id" ELSE param

IndexedParams == {"tag_ids", "pixel_ids", "domains"}

\* some sent key is the parameter's: its wire key, or that key with an index
KeySent(param) ==
    \E i \in DOMAIN SentItems :
        \/ SentItems[i][1] = WireKey(param)
        \/ param \in IndexedParams /\ startswith(SentItems[i][1], param \o "[")

NoNullSent == \A i \in DOMAIN SentItems : SentItems[i][2] # None

\* the caller passed the parameter, and not as None (nor, for a list of ids,
\* as an empty list, which has no element to send)
Supplied(param) ==
    /\ param \in DOMAIN call.kw
    /\ call.kw[param] # None
    /\ param \in IndexedParams => call.kw[param].v # <<>>

CreateUpdateListStats ==
    {"get_onelink_stats", "create_short_link", "update_short_link", "list_short_links",
     "bulk_shorten_links", "bulk_update_links", "get_link_stats", "create_utm_preset",
     "update_utm_preset", "list_onelinks", "update_qr_code"}

SignatureDefault(name, param) ==
    IF name = "list_onelinks" /\ param = "page" THEN PyInt(1)
    ELSE IF name = "get_qr_code" /\ param = "output" THEN PyStr("image")
    ELSE IF name = "get_qr_code" /\ param = "fmt" THEN PyStr("png")
    ELSE None

\* the value the method sees for a parameter: the caller's, else the default
Effective(param) == Arg(call.kw, param, SignatureDefault(call.name, param))

SentAuthorization == dict_get(calls[1].headers, "Authorization")

BearerOfGiven == PyStr("Bearer " \o given.api_token.v)

PairsOf(name) == SelectSeq(SentItems, LAMBDA pair : startswith(pair[1], name))

\* text is the string form of the list element
IsStringFormOf(text, element) ==
    IF element.t = "int"
    THEN /\ text # ""
         /\ \A k \in 1..Len(text) : IsDigit(Char(text, k))
         /\ (Len(text) > 1 => Char(text, 1) # "0")
         /\ digits_value(text) = element.v
    ELSE text = element.v

ListLen(value) == IF value = None THEN 0 ELSE Len(value.v)

\* C6: list_short_links sends, for each of tag_ids, pixel_ids and domains and
\* each position i of the list, exactly one pair (name[i], string form of the
\* i-th element), the indices 0..len-1 in list order, and no other pair for
\* that name; an empty or absent list sends none.
C6_IndexedPairs ==
    (MethodCalled /\ call.name = "list_short_links") =>
        \A name \in IndexedParams :
            LET values == Arg(call.kw, name, None)
                pairs == PairsOf(name)
            IN  /\ Len(pairs) = ListLen(values)
                /\ \A i \in 1..Len(pairs) :
                     /\ pairs[i][1] = name \o "[" \o Char(Digits, i) \o "]"
                     /\ IsStr(pairs[i][2])
                     /\ IsStringFormOf(pairs[i][2].v, values.v[i])

\* list_short_links(tag_ids=[1, 23], pixel_ids=[8], domains=[3, "x"])
C6_Witness ==
    /\ MethodCalled
    /\ call.name = "list_short_links"
    /\ DOMAIN call.kw = IndexedParams
    /\ call.kw["tag_ids"] = PyList(<<PyInt(1), PyInt(23)>>)
    /\ call.kw["pixel_ids"] = PyList(<<PyInt(8)>>)
    /\ call.kw["domains"] = PyList(<<PyInt(3), PyStr("x")>>)
    /\ Len(SentItems) = 5

RECURSIVE replace(_, _, _)
\* s.replace(old, new)
replace(s, old, new) ==
    LET i == find(s, old)
    IN  IF i = 0 THEN s
        ELSE SubSeq(s, 1, i - 1) \o new \o replace(SubSeq(s, i + Len(old), Len(s)), old, new)

\* the id argument of a call: the parameter that fills {id} in the path
IdArgument ==
    LET idParams == DOMAIN call.kw \cap {"preset_id", "pixel_record_id", "tag_id"}
    IN  IF idParams # {} THEN py_str(call.kw[CHOOSE q \in idParams : TRUE])
        ELSE IF call.name \in {"get_pixel", "delete_pixel"} THEN py_str(call.kw["pixel_id"])
        ELSE ""

\* C7: every name of SUPPORTED_METHODS is a method of TlyClient, and a call
\* of that method issues a request whose HTTP method and path are those of
\* the ENDPOINTS entry of the same name, {id} replaced by the id argument.
C7_MethodsMatchEndpoints ==
    /\ SUPPORTED_METHODS \subseteq ClientMethods
    /\ MethodCalled =>
         /\ call.name \in SUPPORTED_METHODS
         /\ descriptor.method = ENDPOINTS[call.name].method
         /\ calls[1].method = ENDPOINTS[call.name].method
         /\ descriptor.path = replace(ENDPOINTS[call.name].path, "{id}", IdArgument)

\* update_pixel(120, ...) has issued PUT /api/v1/link/pixel/120
C7_Witness ==
    /\ MethodCalled
    /\ call.name = "update_pixel"
    /\ call.kw["pixel_record_id"] = PyInt(120)
    /\ calls[1].method = "PUT"
    /\ descriptor.path = "/api/v1/link/pixel/120"

----------------------------------------------------------------------------
(* The command line *)

\* a run of main has begun with the parsed arguments cli.args
CliRun == cli # NoCli

CliExited == pc = "exited"

\* --data of a `call <method>` is valid JSON but not a JSON object
NonObjectData(args) ==
    /\ args.command = "call"
    /\ args.method \in SUPPORTED_METHODS
    /\ args.data # None
    /\ json_loads(args.data.v).ok
    /\ ~IsDict(json_loads(args.data.v).v)

\* the run has ended with exit code 2 and the message of _parse_data on the
\* error stream, the client method was not invoked and nothing was exchanged
RejectedAsNonObject ==
    /\ CliExited
    /\ cli.exit_code = 2
    /\ \E i \in DOMAIN cli.stderr : contains(cli.stderr[i], "must be a JSON object")
    /\ call = NoCall
    /\ calls = <<>>

\* C8 as stated: every `call <method>` run whose --data is valid JSON but not
\* an object exits with code 2, writes an error containing "must be a JSON
\* object", and neither invokes the client method nor exchanges anything.
C8_NonObjectDataRejected ==
    (CliRun /\ NonObjectData(cli.args)) => RejectedAsNonObject

\* C8: when a credential is given (--token or TLY_API_TOKEN, not empty), a
\* `call <method>` run whose --data is valid JSON but not an object exits with
\* code 2, writes an error containing "must be a JSON object", and neither
\* invokes the client method nor exchanges anything. (Without a credential the
\* run ends earlier, also with code 2, on the missing-token error.)
C8_NonObjectDataRejectedWithToken ==
    (CliRun /\ NonObjectData(cli.args) /\ truthy(cli.args.token)) => RejectedAsNonObject

\* `--token tok call create_tag --data []` has exited with code 2
C8_Witness ==
    /\ CliExited
    /\ cli.args.command = "call"
    /\ cli.args.method = "create_tag"
    /\ cli.args.data = PyStr("[]")
    /\ cli.args.token = PyStr("tok")
    /\ cli.exit_code = 2
    /\ cli.stderr = <<"--data must be a JSON object">>
    /\ calls = <<>>

\* the JSON text arguments of the run: --data of call, --meta-json of shorten
JsonArgument(args) ==
    IF args.command = "call" THEN args.data
    ELSE IF args.command = "shorten" THEN args.meta_json
    ELSE None

\* an argument that is given, not empty and not valid JSON
InvalidJsonArgument(args) ==
    truthy(JsonArgument(args)) /\ ~json_loads(JsonArgument(args).v).ok

\* the argument bag of `call` is an object whose keys are not the parameters
\* of the named operation
WrongArguments(args) ==
    /\ args.command = "call"
    /\ args.method \in ClientMethods
    /\ truthy(args.data)
    /\ json_loads(args.data.v).ok
    /\ IsDict(json_loads(args.data.v).v)
    /\ ~Binds(args.method, Unpack(json_loads(args.data.v).v.v))

\* the failure of the run is one of malformed caller input
InputError(args) ==
    \/ ~truthy(args.token)
    \/ args.command = "call" /\ args.method \notin SUPPORTED_METHODS
    \/ InvalidJsonArgument(args)
    \/ NonObjectData(args)
    \/ WrongArguments(args)

\* the operation of the run succeeded: the client method returned a result
Succeeded == outcome.kind = "return"

\* C9: a run exits with 0 exactly when the operation succeeded, with 2
\* exactly when it failed on malformed caller input (invalid JSON arguments,
\* a non-object argument bag, wrong arguments for the operation, a missing
\* credential), and with 1 exactly when it failed otherwise (API error,
\* transport failure, malformed response, anything unexpected).
C9_ExitCodeByFailureKind ==
    CliExited =>
        cli.exit_code = (IF Succeeded THEN 0 ELSE IF InputError(cli.args) THEN 2 ELSE 1)

----------------------------------------------------------------------------
(* Dates and timestamps *)

DateParams == {"start_date", "end_date", "expire_at_datetime"}

\* the digits of s from i to j as a number; -1 if they are not all digits
Field(s, i, j) ==
    IF j <= Len(s) /\ \A k \in i..j : IsDigit(Char(s, k))
    THEN digits_value(SubSeq(s, i, j)) ELSE -1

\* s is YYYY-MM-DD
IsIsoDate(s) ==
    /\ Len(s) >= 10
    /\ Field(s, 1, 4) >= 1
    /\ Char(s, 5) = "-" /\ Field(s, 6, 7) \in 1..12
    /\ Char(s, 8) = "-" /\ Field(s, 9, 10) \in 1..31

\* s, from position 12, is HH:MM:SS or HH:MM:SS.ffffff
IsIsoTime(s) ==
    /\ Len(s) \in {19, 26}
    /\ Field(s, 12, 13) \in 0..23
    /\ Char(s, 14) = ":" /\ Field(s, 15, 16) \in 0..59
    /\ Char(s, 17) = ":" /\ Field(s, 18, 19) \in 0..59
    /\ Len(s) = 26 => (Char(s, 20) = "." /\ Field(s, 21, 26) >= 0)

\* the date or date-time a text denotes, read as date.fromisoformat and
\* datetime.fromisoformat read it (any one character may separate the date
\* from the time); ok = FALSE for a text that denotes none
fromisoformat(s) ==
    IF IsIsoDate(s) /\ Len(s) = 10
    THEN [ok |-> TRUE, v |-> PyDate(Field(s, 1, 4), Field(s, 6, 7), Field(s, 9, 10))]
    ELSE IF IsIsoDate(s) /\ IsIsoTime(s)
    THEN [ok |-> TRUE,
          v |-> PyDateTime(Field(s, 1, 4), Field(s, 6, 7), Field(s, 9, 10),
                           Field(s, 12, 13), Field(s, 15, 16), Field(s, 18, 19),
                           IF Len(s) = 26 THEN Field(s, 21, 26) ELSE 0)]
    ELSE [ok |-> FALSE, v |-> None]

IsStructured(value) == value.t \in {"date", "datetime"}

\* what a supplied value denotes
Denotes(value) ==
    IF IsStructured(value) THEN [ok |-> TRUE, v |-> value]
    ELSE IF IsStr(value) THEN fromisoformat(value.v)
    ELSE [ok |-> FALSE, v |-> None]

\* the date parameters the caller supplied to the method call in progress
SuppliedDates == {p \in DateParams \cap DOMAIN call.kw : call.kw[p] # None}

SentDate(p) == dict_get(SentItems, p)

\* C10 as stated: whatever date or instant a supplied value denotes, as a
\* string or as a structured value, the text sent is the canonical (ISO-8601)
\* text of that date or instant, so two values denoting the same one are sent
\* as the same text; and serializing the sent text leaves it unchanged.
C10_SentCanonical ==
    MethodCalled =>
        \A p \in SuppliedDates :
            /\ Denotes(call.kw[p]).ok => SentDate(p) = PyStr(isoformat(Denotes(call.kw[p]).v))
            /\ _as_iso(SentDate(p)) = SentDate(p)

\* C10: a structured date or datetime is sent as its ISO-8601 text, from which
\* the value can be read back; a string is sent unchanged, whatever it holds,
\* so a string and a structured value are sent as the same text exactly when
\* the string is already the ISO-8601 text of the structured value; and
\* serializing the sent text leaves it unchanged.
C10_StructuredIsoStringVerbatim ==
    MethodCalled =>
        \A p \in SuppliedDates :
            /\ IsStr(SentDate(p))
            /\ IsStructured(call.kw[p]) =>
                 /\ SentDate(p) = PyStr(isoformat(call.kw[p]))
                 /\ fromisoformat(SentDate(p).v) = [ok |-> TRUE, v |-> call.kw[p]]
            /\ IsStr(call.kw[p]) => SentDate(p) = call.kw[p]
            /\ _as_iso(SentDate(p)) = SentDate(p)
            /\ \A d \in DateInputs :
                 IsStructured(d) => (_as_iso(d) = SentDate(p) <=> isoformat(d) = SentDate(p).v)

\* get_link_stats with start_date the datetime 2026-03-09 14:05:07.000120 has
\* sent start_date=2026-03-09T14:05:07.000120
C10_Witness ==
    /\ MethodCalled
    /\ call.name = "get_link_stats"
    /\ "start_date" \in SuppliedDates
    /\ call.kw["start_date"] = PyDateTime(2026, 3, 9, 14, 5, 7, 120)
    /\ SentDate("start_date") = PyStr("2026-03-09T14:05:07.000120")

----------------------------------------------------------------------------
(* The client as a scoped resource *)

\* the run has entered the with block of main: a client was constructed
Constructed == client # NoClient

\* how the with block of a finished run was left
LeftNormally == outcome.kind = "return"
LeftByApiError == outcome.kind = "raise" /\ outcome.exc.type = "TlyAPIError"
LeftByTransportError == outcome.kind = "raise" /\ outcome.exc.type \in TransportFailures
LeftByOtherException ==
    outcome.kind = "raise" /\ outcome.exc.type \notin TransportFailures \cup {"TlyAPIError"}

\* C11: a run of the CLI that constructs a client uses it in a with block, and
\* however the block is left (result returned, API error, transport error, any
\* other exception) the run ends with the client's session closed, whatever
\* the exit code; a run that passes the token check always constructs one.
C11_SessionClosedOnEveryExit ==
    CliExited =>
        /\ Constructed =>
             /\ client.session.closed
             /\ LeftNormally \/ LeftByApiError \/ LeftByTransportError \/ LeftByOtherException
             /\ cli.exit_code \in {0, 1, 2}
        /\ Constructed <=>
             (truthy(cli.args.token)
              /\ (cli.args.command = "call" => cli.args.method \in SUPPORTED_METHODS))

\* a run whose exchange failed with a timeout has exited with code 1 and the
\* session closed
C11_Witness ==
    /\ CliExited
    /\ Constructed
    /\ LeftByTransportError
    /\ outcome.exc.type = "Timeout"
    /\ cli.exit_code = 1
    /\ client.session.closed

----------------------------------------------------------------------------
(* One exchange per call *)

\* a call of a client operation is in progress or has just ended
InCall == pc \in {"inflight", "done"} /\ call.via \in {"method", "request"}

\* the exchanges handed to the transport since the call began
Exchanges == Len(calls)

CallEnded == pc = "done" /\ call.via \in {"method", "request"}

\* C12: from the moment an operation is called until its caller has the
\* outcome, exactly one exchange has been handed to the transport; a call
\* answered with a status >= 400 ends raising TlyAPIError and one whose
\* exchange fails (timeout, connection failure) ends raising that failure,
\* each after that single exchange; outside a call nothing is exchanged.
C12_ExactlyOneExchange ==
    /\ InCall => Exchanges = 1
    /\ pc = "idle" => Exchanges = 0
    /\ (CallEnded /\ response.kind = "failure") =>
         /\ outcome.kind = "raise"
         /\ outcome.exc.type = response.exc
         /\ Exchanges = 1
    /\ (CallEnded /\ response.kind = "response" /\ response.status_code >= 400) =>
         /\ RaisedApiError
         /\ Exchanges = 1

\* delete_tag has ended with a timeout after its single exchange
C12_Witness ==
    /\ CallEnded
    /\ call.name = "delete_tag"
    /\ response.kind = "failure"
    /\ response.exc = "Timeout"
    /\ outcome.kind = "raise"
    /\ outcome.exc.type = "Timeout"
    /\ Exchanges = 1

----------------------------------------------------------------------------
(* The forms of a result *)

\* a call of request has been answered with a status below 400
AnsweredBelow400 == Answered /\ response.status_code < 400

\* the body of the answer, decoded and trimmed
TrimmedBody == strip(decode(response.content))

\* the answer announces JSON or looks like it
LooksLikeJson ==
    \/ \E i \in DOMAIN response.headers :
         /\ response.headers[i][1] = "Content-Type"
         /\ contains(lower(response.headers[i][2].v), "application/json")
    \/ startswith(TrimmedBody, "{")
    \/ startswith(TrimmedBody, "[")

\* the body of the answer as JSON
BodyAsJson == json_loads(decode(response.content))

Returned(value) == outcome = [kind |-> "return", value |-> value]

\* C13 as stated: a call answered with a status below 400 returns the raw
\* bytes when binary output was requested, else an empty mapping when the
\* trimmed body is empty, else a mapping or sequence when the answer announces
\* or looks like JSON, else the trimmed text; it returns nothing else and
\* never fails.
C13_OneOfFourForms ==
    AnsweredBelow400 =>
        /\ outcome.kind = "return"
        /\ IF descriptor.expect_binary THEN Returned(PyBytes(response.content))
           ELSE IF TrimmedBody = "" THEN Returned(PyDict(<<>>))
           ELSE IF LooksLikeJson THEN IsDict(outcome.value) \/ IsList(outcome.value)
           ELSE Returned(PyStr(TrimmedBody))

\* C13: a call answered with a status below 400 returns the raw bytes when
\* binary output was requested, else an empty mapping when the trimmed body
\* is empty, else, when the answer announces or looks like JSON, whatever
\* value the body decodes to (a mapping or sequence, but also a number, a
\* string, a boolean or null), and raises the decoder's error (a ValueError,
\* not TlyAPIError) when the body is not valid JSON; else it returns the
\* trimmed text.
C13_FormsOfResult ==
    AnsweredBelow400 =>
        IF descriptor.expect_binary THEN Returned(PyBytes(response.content))
        ELSE IF TrimmedBody = "" THEN Returned(PyDict(<<>>))
        ELSE IF LooksLikeJson
        THEN (IF BodyAsJson.ok THEN Returned(BodyAsJson.v)
              ELSE /\ outcome.kind = "raise"
                   /\ outcome.exc.type = "JSONDecodeError"
                   /\ IsInstance(outcome.exc, "ValueError")
                   /\ ~IsInstance(outcome.exc, "TlyAPIError"))
        ELSE Returned(PyStr(TrimmedBody))

\* a call answered 200 with Content-Type application/json and the body 7 has
\* returned the number 7
C13_Witness ==
    /\ AnsweredBelow400
    /\ ~descriptor.expect_binary
    /\ response.status_code = 200
    /\ response.content = encode("7")
    /\ LooksLikeJson
    /\ Returned(PyInt(7))

----------------------------------------------------------------------------
(* The message of an API error *)

\* the field of a decoded mapping, None when it has no such field
FieldOf(payload, name) == dict_get(payload.v, name)

\* the message the precedence of C14 chooses for a response text
ChosenMessage(text) ==
    LET decoded == json_loads(text)
        payload == decoded.v
    IN  IF ~decoded.ok THEN (IF text = "" THEN "Request failed" ELSE text)
        ELSE IF ~IsDict(payload) THEN py_str(payload)
        ELSE IF IsStr(FieldOf(payload, "message")) THEN FieldOf(payload, "message").v
        ELSE IF IsStr(FieldOf(payload, "error")) THEN FieldOf(payload, "error").v
        ELSE IF IsDict(FieldOf(payload, "errors")) \/ IsList(FieldOf(payload, "errors"))
        THEN py_str(FieldOf(payload, "errors"))
        ELSE py_str(payload)

\* bodies and the messages Python gives for them
MessageExamples ==
    {<<"{\"message\": \"m\", \"error\": \"e\"}", "m">>,
     <<"{\"message\": 5, \"error\": \"e\"}", "e">>,
     <<"{\"message\": null, \"error\": [\"x\"], \"errors\": {\"f\": [\"r\"]}}", "{'f': ['r']}">>,
     <<"{\"error\": {\"a\": 1}, \"errors\": [\"a\", 2]}", "['a', 2]">>,
     <<"{\"errors\": \"s\"}", "{'errors': 's'}">>,
     <<"{\"message\": true}", "{'message': True}">>,
     <<"[\"message\"]", "['message']">>,
     <<"null", "None">>,
     <<"oops", "oops">>,
     <<"", "Request failed">>}

\* C14: the message of the TlyAPIError raised for a status >= 400 is the one
\* the precedence chooses from the response text: for a JSON mapping the
\* string `message`, else the string `error`, else the string form of a
\* mapping or sequence `errors`, else the string form of the payload; for
\* other JSON the string form of the payload; for text that is not JSON the
\* text itself, or "Request failed" when it is empty. A `message` or `error`
\* that is no string is passed over.
C14_MessagePrecedence ==
    (Answered /\ response.status_code >= 400) =>
        LET text == decode(response.content)
        IN  /\ RaisedApiError
            /\ outcome.exc.message = ChosenMessage(text)
            /\ \A example \in MessageExamples :
                 text = example[1] => outcome.exc.message = example[2]

\* delete_tag answered 400 with a mapping whose message is a number and whose
\* error is the string e has raised TlyAPIError with the message e
C14_Witness ==
    /\ Answered
    /\ call.name = "delete_tag"
    /\ response.status_code = 400
    /\ response.content = encode("{\"message\": 5, \"error\": \"e\"}")
    /\ RaisedApiError
    /\ outcome.exc.message = "e"

----------------------------------------------------------------------------
(* The connection configuration *)

\* the default headers of a client constructed with the given arguments
HeadersAtConstruction ==
    << <<"Authorization", PyStr("Bearer " \o given.api_token.v)>>,
       <<"Accept", PyStr("application/json")>>,
       <<"Content-Type", PyStr("application/json")>>,
       <<"User-Agent", PyStr(given.user_agent)>> >>

\* the base address of a client constructed with the given arguments: the
\* argument without its trailing slashes
RECURSIVE WithoutTrailingSlashes(_)
WithoutTrailingSlashes(url) ==
    IF url # "" /\ SubSeq(url, Len(url), Len(url)) = "/"
    THEN WithoutTrailingSlashes(SubSeq(url, 1, Len(url) - 1))
    ELSE url

\* the header overrides of the call in progress, as <<key, value>> pairs
Overrides == IF IsDict(descriptor.headers) THEN descriptor.headers.v ELSE <<>>

KeysOf(pairs) == {pairs[i][1] : i \in DOMAIN pairs}

ValueOf(pairs, key) == pairs[CHOOSE i \in DOMAIN pairs : pairs[i][1] = key][2]

\* defaults with the overrides applied: an override replaces the default of
\* its key, the other overrides follow the defaults
WithOverrides(defaults, overrides) ==
    [i \in DOMAIN defaults |->
        IF defaults[i][1] \in KeysOf(overrides)
        THEN <<defaults[i][1], ValueOf(overrides, defaults[i][1])>>
        ELSE defaults[i]]
    \o SelectSeq(overrides, LAMBDA pair : pair[1] \notin KeysOf(defaults))

\* C15: whatever calls were made and however they ended, the client's base
\* address, timeout and default headers are those of its construction, and
\* the headers and timeout of the request in progress are those defaults
\* with the overrides of this call alone.
C15_ConfigurationUnchanged ==
    client # NoClient =>
        /\ client.base_url = WithoutTrailingSlashes(given.base_url)
        /\ client.timeout = given.timeout
        /\ client.default_headers = HeadersAtConstruction
        /\ calls # <<>> =>
             /\ calls[1].headers = WithOverrides(HeadersAtConstruction, Overrides)
             /\ calls[1].timeout = given.timeout

\* get_qr_code(output="image"), sent with Accept: image/png,*/*, has ended in
\* an API error and the client's default Accept is still application/json
C15_Witness ==
    /\ pc = "done"
    /\ call.name = "get_qr_code"
    /\ descriptor.expect_binary
    /\ dict_get(calls[1].headers, "Accept") = PyStr("image/png,*/*")
    /\ RaisedApiError
    /\ outcome.exc.status_code = 500
    /\ dict_get(client.default_headers, "Accept") = PyStr("application/json")
    /\ client.base_url = "http://localhost:8080/v2"

----------------------------------------------------------------------------
(* The URL of a request *)

\* the configured base address, without trailing slash
BaseAddress == WithoutTrailingSlashes(given.base_url)

RECURSIVE WithoutLeadingSlashes(_)
WithoutLeadingSlashes(path) ==
    IF path # "" /\ SubSeq(path, 1, 1) = "/"
    THEN WithoutLeadingSlashes(SubSeq(path, 2, Len(path)))
    ELSE path

\* the path beginning with exactly one separator
OneLeadingSeparator(path) == "/" \o WithoutLeadingSlashes(path)

\* the path has a "." or ".." segment, which joining resolves
HasDotSegment(path) ==
    \E i \in 1..Len(path) :
        \E dots \in {".", ".."} :
            /\ i + Len(dots) - 1 <= Len(path)
            /\ SubSeq(path, i, i + Len(dots) - 1) = dots
            /\ i = 1 \/ SubSeq(path, i - 1, i - 1) = "/"
            /\ i + Len(dots) - 1 = Len(path) \/ SubSeq(path, i + Len(dots), i + Len(dots)) = "/"

\* scheme://host of an address: the address up to the first "/" after "://"
RECURSIVE UpToSlash(_)
UpToSlash(s) ==
    IF s = "" \/ SubSeq(s, 1, 1) = "/" THEN ""
    ELSE SubSeq(s, 1, 1) \o UpToSlash(SubSeq(s, 2, Len(s)))

HostPart(address) ==
    LET i == CHOOSE k \in 1..(Len(address) - 2) : SubSeq(address, k, k + 2) = "://"
    IN  SubSeq(address, 1, i + 2) \o UpToSlash(SubSeq(address, i + 3, Len(address)))

SentUrl == calls[1].url

\* C16: the URL handed to the transport is the base address without trailing
\* slash followed by the path with exactly one leading separator (for a path
\* without "." and ".." segments, which joining resolves), and it always
\* targets the host of the configured base address, as does the bearer
\* credential sent with it.
C16_UrlIsBasePlusPath ==
    (calls # <<>> /\ call.via \in {"method", "request"}) =>
        /\ ~HasDotSegment(descriptor.path) =>
             SentUrl = BaseAddress \o OneLeadingSeparator(descriptor.path)
        /\ startswith(SentUrl, HostPart(given.base_url) \o "/")

====
